---- MODULE Spec2Model ----
(***************************************************************************)
(* AEFR editor (src/src/main.rs): the command channel, the loader threads, *)
(* the per-frame update of AefrApp (drain, layout, parallel pose update,   *)
(* paint, creator panel) and the console command parser.                   *)
(*                                                                         *)
(* Strings the program parses are sequences of one-character strings.      *)
(* Times are in milliseconds, scales in thousandths.                       *)
(***************************************************************************)
EXTENDS Integers, Sequences, FiniteSets, TLC

VARIABLES
    fs,                 \* the files on disk, by path (environment, fixed at start)
    logic_cores,        \* available_parallelism() as AefrScheduler::new read it
    audio_manager,      \* Option<AudioManager>: [some, bgm, se]
    chan,               \* the mpsc channel tx/rx: queue of AppCommand
    nsent,              \* number of commands sent on the channel so far
    napplied,           \* sequence number of the command applied last
    characters,         \* Vec<Option<SpineObject>>, indexed 0..4
    background,         \* Option<TextureHandle>
    textures,           \* texture ids alive in the egui context
    next_texture,       \* next texture id the context hands out
    scenario,           \* scenario.scenes
    current_scene_idx,
    target_chars,
    visible_count,
    type_timer,
    console_open,
    selected_slot,
    console_logs,
    loaders,            \* the threads spawned by thread::spawn, in spawn order
    uipc,               \* where the UI thread is in AefrApp::update
    frame,              \* number of the current frame
    dt,                 \* stable_dt read in this frame
    pending,            \* slots the parallel iterator has not handed out yet
    working,            \* pool worker -> slot it holds &mut of (or NoSlot)
    updates,            \* slot -> update_parallel calls in this frame
    drawlist,           \* shapes added to the painter in this frame
    inputs,             \* user inputs handled so far
    crashed             \* the UI thread panicked

vars == <<fs, logic_cores, audio_manager, chan, nsent, napplied, characters, background,
          textures, next_texture, scenario, current_scene_idx, target_chars,
          visible_count, type_timer, console_open, selected_slot,
          console_logs, loaders, uipc, frame, dt, pending, working, updates,
          drawlist, inputs, crashed>>

-----------------------------------------------------------------------------
(* Bounds of the model *)

MaxFrames == 5          \* frames the UI thread runs
MaxInputs == 3          \* user inputs (clicks, console lines) in a run
MaxSelSlot == 1         \* the user selects slots 0..MaxSelSlot
MaxLines == 1           \* console lines the user submits in a run
LogicCores == 4         \* available_parallelism() of the machine

(* Constants of the program *)

NumSlots == 5
MAX_DT == 33
TYPE_INTERVAL == 30
BASE_HEIGHT == 720
BASE_SCALE == 450
SCREEN_W == 1280
SCREEN_H == 720

Slots == 0 .. (NumSlots - 1)
NoSlot == 0 - 1

Min(a, b) == IF a < b THEN a ELSE b

NONE == [some |-> FALSE]

-----------------------------------------------------------------------------
(* Strings *)

StartupText ==
    <<"A", "E", "F", "R", " ", "yi", "qi", "dong", "\n",
      "zheng", "zai", "deng", "dai", "zhi", "ling", ".", ".", ".", ".", ".", ".">>

Str_OxidizedSchale == <<"OxidizedSchale">>
Str_Contributors == <<"AEFR Contributors">>

-----------------------------------------------------------------------------
(* The files on disk.  A path names an atlas with its page image and its   *)
(* skeleton files next to it, or an image, or an audio file.               *)

File(atlas, image, skel, json, anims, slots, picture, audio) ==
    [atlas |-> atlas, image |-> image, skel |-> skel, json |-> json,
     anims |-> anims, slots |-> slots, picture |-> picture, audio |-> audio]

MissingFile == File("bad", "bad", "absent", "absent", <<>>, <<>>, FALSE, "unreadable")

(* a file of text: std::fs::write(p, json) leaves one, read_to_string reads it *)
TextFile(text) ==
    [atlas |-> "bad", image |-> "bad", skel |-> "absent", json |-> "absent",
     anims |-> <<>>, slots |-> <<>>, picture |-> FALSE, audio |-> "unreadable",
     text |-> text]
PathS == <<"s">>

(* What a slot of the skeleton's draw order has attached.  The lengths of a
   mesh attachment are those its file declares: world_vertices_length counts
   floats, two per vertex. *)
NoAttachment == [kind |-> "none"]
Region == [kind |-> "region"]
MeshAttachment(vertices, triangles) ==
    [kind |-> "mesh", world_vertices_length |-> 2 * vertices,
     triangles_count |-> 3 * triangles,
     triangles |-> [k \in 1 .. (3 * triangles) |-> (k - 1) % vertices]]
Clipping == [kind |-> "clipping"]
BoundingBox == [kind |-> "boundingbox"]

(* compute_world_vertices: the floats x0, y0, x1, y1, ... of the attachment in
   the space of the skeleton: the four corners of a region, the declared
   vertices of a mesh *)
ComputeWorldVertices(attachment) ==
    IF attachment.kind = "region" THEN <<-1, -2, -1, 2, 1, 2, 1, -2>>
    ELSE [k \in 1 .. attachment.world_vertices_length |->
            IF k % 2 = 1 THEN (k + 1) \div 2 ELSE k - 5]

(* region.uvs(), mesh_att.uvs(): as many floats as world vertices *)
UvsOf(attachment) ==
    IF attachment.kind = "region" THEN <<1, 1, 1, 0, 0, 0, 0, 1>>
    ELSE [k \in 1 .. attachment.world_vertices_length |-> k % 2]

(* the triangle indices: two triangles for the quad of a region *)
TrianglesOf(attachment) ==
    IF attachment.kind = "region" THEN <<0, 1, 2, 2, 3, 0>> ELSE attachment.triangles

FileAt(files, path) == IF path \in DOMAIN files THEN files[path] ELSE MissingFile

ClipIdle == <<"i", "d", "l", "e">>
ClipWalk == <<"w", "a", "l", "k">>
ClipRun == <<"r", "u", "n">>

PathA == <<"a">>
PathB == <<"b">>
PathG == <<"g">>
PathM == <<"m">>
PathX == <<"x">>

MainFiles ==
    (PathA :> File("ok", "ok", "ok", "absent", <<ClipIdle, ClipWalk>>,
                   <<Region, MeshAttachment(3, 1)>>, FALSE, "unreadable"))
    @@ (PathB :> File("ok", "ok", "absent", "ok", <<ClipRun>>,
                      <<Region>>, FALSE, "unreadable"))
    @@ (PathG :> File("bad", "bad", "absent", "absent", <<>>, <<>>, TRUE, "garbage"))
    @@ (PathM :> File("bad", "bad", "absent", "absent", <<>>, <<>>, FALSE, "ok"))

-----------------------------------------------------------------------------
(* AefrScheduler *)

(* variant: two cores less than the machine has, whatever it has *)
WorkerCountNoFloor(cores) == cores - 2
(* num_threads of the pool *)
WorkerCount(cores) == IF cores > 2 THEN cores - 2 ELSE 1

NumWorkers == WorkerCount(LogicCores)
Workers == 1 .. NumWorkers

-----------------------------------------------------------------------------
(* AppCommand *)

Dialogue(name, affiliation, content) ==
    [type |-> "Dialogue", name |-> name, affiliation |-> affiliation, content |-> content]
RequestLoad(slot_idx, path) == [type |-> "RequestLoad", slot_idx |-> slot_idx, path |-> path]
LoadSuccess(idx, obj, color_image, page_name, anims) ==
    [type |-> "LoadSuccess", slot_idx |-> idx, obj |-> obj, color_image |-> color_image,
     page_name |-> page_name, anims |-> anims]
RemoveCharacter(idx) == [type |-> "RemoveCharacter", slot_idx |-> idx]
LoadBackground(path) == [type |-> "LoadBackground", path |-> path]
LoadBackgroundSuccess(c_img) == [type |-> "LoadBackgroundSuccess", color_image |-> c_img]
PlayBgm(path) == [type |-> "PlayBgm", path |-> path]
PlaySe(path) == [type |-> "PlaySe", path |-> path]
AudioReady(data, is_bgm) == [type |-> "AudioReady", data |-> data, is_bgm |-> is_bgm]
StopBgm == [type |-> "StopBgm"]
SetAnimation(slot_idx, anim_name, loop_anim) ==
    [type |-> "SetAnimation", slot_idx |-> slot_idx, anim_name |-> anim_name,
     loop_anim |-> loop_anim]
Log(msg) == [type |-> "Log", msg |-> msg]

(* tx.send: the command joins the back of the queue; seq is its send number *)
Enqueue(queue, cmds, sent) ==
    queue \o [k \in 1 .. Len(cmds) |-> [seq |-> sent + k] @@ cmds[k]]

(* rx.try_recv *)
RecvEmpty(queue) == queue = <<>>
(* variant: a receiver that takes the newest command first *)
RecvNewest(queue) == queue[Len(queue)]
RecvNext(queue) == Head(queue)
RecvRest(queue) == Tail(queue)

-----------------------------------------------------------------------------
(* SpineObject *)

NoTrack == [anim |-> <<>>, loop_anim |-> FALSE, time |-> 0]
SetupPose == [clip |-> <<>>, at |-> 0]

(* AnimationState::set_animation(0, anim, loop) *)
Track(anim, loop_anim) == [anim |-> anim, loop_anim |-> loop_anim, time |-> 0]

(* variant: a loader that uploads the page image itself *)
EagerTexture == [some |-> TRUE, id |-> 0]
(* `_texture: None, texture_id: None` of the object the loader returns *)
NoGpuTexture == NONE

(* variant: a default track that plays the first clip once *)
DefaultTrackOnce(anims) ==
    IF anims # <<>> THEN Track(anims[1], FALSE) ELSE NoTrack
(* `if let Some(anim) = skeleton_data.animations().next()` on a new
   AnimationState: the first clip, looping, or no clip *)
DefaultTrack(anims) ==
    IF anims # <<>> THEN Track(anims[1], TRUE) ELSE NoTrack

(* SpineObject::load_async_no_gpu, run by the loader thread `id` *)
LoadAsyncNoGpu(files, path, id) ==
    LET f == FileAt(files, path)
        ok == [ok |-> TRUE,
               obj |-> [some |-> TRUE,
                        id |-> id,
                        skeleton |-> SetupPose,
                        state |-> DefaultTrack(f.anims),
                        texture |-> NoGpuTexture,
                        texture_id |-> NoGpuTexture,
                        position |-> <<0, 0>>,
                        scale |-> BASE_SCALE,
                        skeleton_data |-> [path |-> path, anims |-> f.anims,
                                           slots |-> f.slots]],
               color_image |-> [page |-> path],
               page_name |-> path,
               anims |-> f.anims]
        err(e) == [ok |-> FALSE, err |-> e]
    IN  IF f.atlas = "bad" THEN err("Atlas Error")
        ELSE IF f.atlas = "nopages" THEN err("Atlas has no pages")
        ELSE IF f.image # "ok" THEN err("Image Load Error")
        ELSE IF f.skel # "absent"
             THEN IF f.skel = "ok" THEN ok ELSE err("Binary load failed")
        ELSE IF f.json # "absent"
             THEN IF f.json = "ok" THEN ok ELSE err("JSON load failed")
        ELSE err("Missing .skel or .json")

(* variant: a clip that is always set looping *)
SetAnimationByNameLooping(char, anim_name, loop_anim) ==
    IF \E k \in 1 .. Len(char.skeleton_data.anims) : char.skeleton_data.anims[k] = anim_name
    THEN [char EXCEPT !.state = Track(anim_name, TRUE)]
    ELSE char

(* SpineObject::set_animation_by_name *)
SetAnimationByName(char, anim_name, loop_anim) ==
    IF \E k \in 1 .. Len(char.skeleton_data.anims) : char.skeleton_data.anims[k] = anim_name
    THEN [char EXCEPT !.state = Track(anim_name, loop_anim)]
    ELSE char

(* variant: an update that applies the measured frame time as it is *)
ClampDtNone(d) == d
(* the step update_parallel applies: dt.min(MAX_DT) *)
ClampDt(d) == Min(d, MAX_DT)

(* SpineObject::update_parallel *)
UpdateParallel(char, d) ==
    LET step == ClampDt(d)
        st == IF char.state.anim = <<>> THEN char.state
              ELSE [char.state EXCEPT !.time = @ + step]
    IN  [char EXCEPT !.state = st,
                     !.skeleton = [clip |-> st.anim, at |-> st.time]]

(* variant: a count of one vertex for every four floats *)
PushCountQuads(uvs_len, w_v_len) == Min(uvs_len \div 4, w_v_len \div 4)
(* push_to_mesh: usize::min(uvs.len() / 2, w_v.len() / 2) *)
PushCount(uvs_len, w_v_len) == Min(uvs_len \div 2, w_v_len \div 2)

(* variant: a vertex scaled and translated with its Y kept *)
VertexPosNoFlip(wx, wy, scale, position) ==
    <<wx * scale + position[1], wy * scale + position[2]>>
(* push_to_mesh: Pos2::new(w_v[i*2] * scale + position.x,
                           -w_v[i*2+1] * scale + position.y) *)
VertexPos(wx, wy, scale, position) ==
    <<wx * scale + position[1], (-wy) * scale + position[2]>>

(* variant: triangle indices pushed as the attachment gives them *)
PushToMeshNoOffset(mesh, w_v, uvs, tris, scale, position) ==
    [vertices |-> mesh.vertices \o
                  [i \in 1 .. PushCount(Len(uvs), Len(w_v)) |->
                      [pos |-> VertexPos(w_v[2 * i - 1], w_v[2 * i], scale, position),
                       uv |-> <<uvs[2 * i - 1], uvs[2 * i]>>]],
     indices |-> mesh.indices \o [k \in 1 .. Len(tris) |-> tris[k]]]
(* SpineObject::push_to_mesh: one vertex per pair of floats, then the indices
   of tris moved by idx_offset, the vertices the mesh had before *)
PushToMesh(mesh, w_v, uvs, tris, scale, position) ==
    LET idx_offset == Len(mesh.vertices) IN
    [vertices |-> mesh.vertices \o
                  [i \in 1 .. PushCount(Len(uvs), Len(w_v)) |->
                      [pos |-> VertexPos(w_v[2 * i - 1], w_v[2 * i], scale, position),
                       uv |-> <<uvs[2 * i - 1], uvs[2 * i]>>]],
     indices |-> mesh.indices \o [k \in 1 .. Len(tris) |-> idx_offset + tris[k]]]

RECURSIVE PaintSlots(_, _, _)
(* the loop of paint over draw_order(), from slot k on *)
PaintSlots(char, k, mesh) ==
    IF k > Len(char.skeleton_data.slots) THEN mesh
    ELSE LET attachment == char.skeleton_data.slots[k] IN
         PaintSlots(char, k + 1,
            CASE attachment.kind = "none" -> mesh
              [] attachment.kind = "region" ->
                    PushToMesh(mesh, SubSeq(ComputeWorldVertices(attachment), 1, 8),
                               UvsOf(attachment), TrianglesOf(attachment),
                               char.scale, char.position)
              [] attachment.kind = "mesh" ->
                    PushToMesh(mesh,
                               SubSeq(ComputeWorldVertices(attachment), 1,
                                      attachment.world_vertices_length),
                               UvsOf(attachment), TrianglesOf(attachment),
                               char.scale, char.position)
              [] OTHER -> mesh)

(* SpineObject::paint: the shapes it adds to the painter *)
PaintChar(char) ==
    IF ~char.texture_id.some THEN <<>>
    ELSE LET mesh == PaintSlots(char, 1, [vertices |-> <<>>, indices |-> <<>>])
         IN  <<[kind |-> "mesh", texture |-> char.texture_id.id, id |-> char.id,
                pose |-> char.skeleton, position |-> char.position,
                scale |-> char.scale,
                vertices |-> Len(mesh.vertices), indices |-> Len(mesh.indices),
                mesh |-> mesh]>>

-----------------------------------------------------------------------------
(* Scene, Scenario *)

Scene(bg_path, bgm_path, name, aff, content) ==
    [bg_path |-> bg_path, bgm_path |-> bgm_path,
     char_paths |-> [i \in Slots |-> NONE], char_anims |-> [i \in Slots |-> NONE],
     speaker_name |-> name, speaker_aff |-> aff, dialogue_content |-> content]

Some(v) == [some |-> TRUE, v |-> v]

(* scenes are indexed from 0 in the program and from 1 here *)
SceneInRange(scenes, idx) == idx < Len(scenes)

(* AefrApp::sync_scene_to_ui *)
SyncSceneToUi(scenes, idx, old_target) ==
    IF SceneInRange(scenes, idx) THEN scenes[idx + 1].dialogue_content ELSE old_target


-----------------------------------------------------------------------------
(* serde_json over the derived Serialize and Deserialize of Scenario and    *)
(* Scene.  A text is a sequence of characters; the name of a field and the  *)
(* literal null are one character each.                                      *)

Quote == "\""
Backslash == "\\"
Newline == "\n"
Null == "null"

OptionKeys == {"bg_path", "bgm_path"}
ArrayKeys == {"char_paths", "char_anims"}
StringKeys == {"speaker_name", "speaker_aff", "dialogue_content"}

(* variant: an escape table without the backslash *)
EscapeCharNoBackslash(c) ==
    CASE c = Quote -> <<Backslash, Quote>>
      [] c = Newline -> <<Backslash, "n">>
      [] OTHER -> <<c>>

(* the escape table of the serializer *)
EscapeChar(c) ==
    CASE c = Quote -> <<Backslash, Quote>>
      [] c = Backslash -> <<Backslash, Backslash>>
      [] c = Newline -> <<Backslash, "n">>
      [] OTHER -> <<c>>

RECURSIVE FormatEscapedStr(_)
FormatEscapedStr(str) ==
    IF str = <<>> THEN <<>> ELSE EscapeChar(Head(str)) \o FormatEscapedStr(Tail(str))

SerializeStr(str) == <<Quote>> \o FormatEscapedStr(str) \o <<Quote>>

(* Option<String>: None is null *)
SerializeOption(opt) == IF opt.some THEN SerializeStr(opt.v) ELSE <<Null>>

(* PrettyFormatter: a line break and two spaces for each level *)
Indent(level) == <<Newline>> \o [k \in 1 .. (2 * level) |-> " "]

RECURSIVE Elements(_, _)
Elements(items, level) ==
    Indent(level) \o Head(items)
    \o (IF Len(items) > 1 THEN <<",">> \o Elements(Tail(items), level) ELSE <<>>)

SerializeSeq(items, level) ==
    IF items = <<>> THEN <<"[", "]">>
    ELSE <<"[">> \o Elements(items, level + 1) \o Indent(level) \o <<"]">>

SerializeField(key, value) == <<Quote, key, Quote, ":", " ">> \o value

SerializeStruct(fields, level) ==
    <<"{">> \o Elements(fields, level + 1) \o Indent(level) \o <<"}">>

SerializeArray(array, level) ==
    SerializeSeq([k \in 1 .. NumSlots |-> SerializeOption(array[k - 1])], level)

SerializeScene(scene, level) ==
    SerializeStruct(
        <<SerializeField("bg_path", SerializeOption(scene.bg_path)),
          SerializeField("bgm_path", SerializeOption(scene.bgm_path)),
          SerializeField("char_paths", SerializeArray(scene.char_paths, level + 1)),
          SerializeField("char_anims", SerializeArray(scene.char_anims, level + 1)),
          SerializeField("speaker_name", SerializeStr(scene.speaker_name)),
          SerializeField("speaker_aff", SerializeStr(scene.speaker_aff)),
          SerializeField("dialogue_content", SerializeStr(scene.dialogue_content))>>,
        level)

(* serde_json::to_string_pretty(&app.scenario) *)
ToStringPretty(scenes) ==
    SerializeStruct(
        <<SerializeField("scenes",
              SerializeSeq([k \in 1 .. Len(scenes) |-> SerializeScene(scenes[k], 2)], 1))>>,
        0)

Err == [ok |-> FALSE]
Ok(v, rest) == [ok |-> TRUE, v |-> v, rest |-> rest]

IsWhitespace(c) == c \in {" ", Newline}

RECURSIVE SkipWhitespace(_)
SkipWhitespace(text) ==
    IF text # <<>> /\ IsWhitespace(Head(text)) THEN SkipWhitespace(Tail(text)) ELSE text

(* the next character that is no whitespace, "" at the end of the text *)
Peek(text) == LET rest == SkipWhitespace(text) IN IF rest = <<>> THEN "" ELSE Head(rest)
Eat(text) == Tail(SkipWhitespace(text))

RECURSIVE ParseStr(_, _)
(* the characters up to the closing quote: an escape is undone, a raw
   control character is an error *)
ParseStr(text, acc) ==
    IF text = <<>> THEN Err
    ELSE IF Head(text) = Quote THEN Ok(acc, Tail(text))
    ELSE IF Head(text) = Newline THEN Err
    ELSE IF Head(text) # Backslash THEN ParseStr(Tail(text), Append(acc, Head(text)))
    ELSE IF Len(text) < 2 THEN Err
    ELSE IF text[2] \in {Quote, Backslash}
         THEN ParseStr(Tail(Tail(text)), Append(acc, text[2]))
    ELSE IF text[2] = "n" THEN ParseStr(Tail(Tail(text)), Append(acc, Newline))
    ELSE Err

DeserializeString(text) ==
    IF Peek(text) = Quote THEN ParseStr(Eat(text), <<>>) ELSE Err

SomeOf(str) == IF str.ok THEN Ok(Some(str.v), str.rest) ELSE Err

(* Option<String>: null is None, a string is Some *)
DeserializeOption(text) ==
    IF Peek(text) = Null THEN Ok(NONE, Eat(text)) ELSE SomeOf(DeserializeString(text))

RECURSIVE OptionElements(_, _)
(* after an element: a comma and the next one, or the end of the sequence *)
AfterOption(elem, acc) ==
    IF ~elem.ok THEN Err
    ELSE IF Peek(elem.rest) = "," THEN OptionElements(Eat(elem.rest), Append(acc, elem.v))
    ELSE IF Peek(elem.rest) = "]" THEN Ok(Append(acc, elem.v), Eat(elem.rest))
    ELSE Err

OptionElements(text, acc) == AfterOption(DeserializeOption(text), acc)

ArrayOf(elems) ==
    IF elems.ok /\ Len(elems.v) = NumSlots
    THEN Ok([i \in Slots |-> elems.v[i + 1]], elems.rest)
    ELSE Err

(* [Option<String>; 5]: a sequence of exactly five elements *)
DeserializeArray(text) ==
    IF Peek(text) # "[" \/ Peek(Eat(text)) = "]" THEN Err
    ELSE ArrayOf(OptionElements(Eat(text), <<>>))

(* the value of a field of Scene; the value of another key is ignored *)
DeserializeValue(key, text) ==
    IF key \in ArrayKeys THEN DeserializeArray(text)
    ELSE IF key \in StringKeys THEN DeserializeString(text)
    ELSE DeserializeOption(text)

Put(key, v, got) ==
    IF key \in OptionKeys \cup ArrayKeys \cup StringKeys THEN (key :> v) @@ got ELSE got

(* a missing Option field is None, another missing field is an error *)
BuildScene(got, rest) ==
    IF ~((ArrayKeys \cup StringKeys) \subseteq DOMAIN got) THEN Err
    ELSE Ok([bg_path |-> IF "bg_path" \in DOMAIN got THEN got["bg_path"] ELSE NONE,
             bgm_path |-> IF "bgm_path" \in DOMAIN got THEN got["bgm_path"] ELSE NONE,
             char_paths |-> got["char_paths"], char_anims |-> got["char_anims"],
             speaker_name |-> got["speaker_name"], speaker_aff |-> got["speaker_aff"],
             dialogue_content |-> got["dialogue_content"]], rest)

RECURSIVE SceneFields(_, _)
(* after the value of a field: a comma and the next field, or the end of the
   object *)
AfterValue(key, value, got) ==
    IF ~value.ok THEN Err
    ELSE IF Peek(value.rest) = "," THEN SceneFields(Eat(value.rest), Put(key, value.v, got))
    ELSE IF Peek(value.rest) = "}" THEN BuildScene(Put(key, value.v, got), Eat(value.rest))
    ELSE Err

(* after the name of a field: a field given twice is an error *)
AfterKey(key, got) ==
    IF ~key.ok \/ Len(key.v) # 1 THEN Err
    ELSE IF key.v[1] \in DOMAIN got \/ Peek(key.rest) # ":" THEN Err
    ELSE AfterValue(key.v[1], DeserializeValue(key.v[1], Eat(key.rest)), got)

(* the fields of a Scene in any order *)
SceneFields(text, got) == AfterKey(DeserializeString(text), got)

DeserializeScene(text) ==
    IF Peek(text) # "{" \/ Peek(Eat(text)) = "}" THEN Err
    ELSE SceneFields(Eat(text), <<>>)

RECURSIVE SceneElements(_, _)
AfterScene(elem, acc) ==
    IF ~elem.ok THEN Err
    ELSE IF Peek(elem.rest) = "," THEN SceneElements(Eat(elem.rest), Append(acc, elem.v))
    ELSE IF Peek(elem.rest) = "]" THEN Ok(Append(acc, elem.v), Eat(elem.rest))
    ELSE Err

SceneElements(text, acc) == AfterScene(DeserializeScene(text), acc)

(* Vec<Scene> *)
DeserializeScenes(text) ==
    IF Peek(text) # "[" THEN Err
    ELSE IF Peek(Eat(text)) = "]" THEN Ok(<<>>, Eat(Eat(text)))
    ELSE SceneElements(Eat(text), <<>>)

(* nothing but the end of the object and whitespace after the scenes *)
AfterScenes(scenes) ==
    IF ~scenes.ok \/ Peek(scenes.rest) # "}" THEN Err
    ELSE IF SkipWhitespace(Eat(scenes.rest)) # <<>> THEN Err
    ELSE Ok(scenes.v, <<>>)

ScenarioField(key) ==
    IF ~key.ok \/ key.v # <<"scenes">> THEN Err
    ELSE IF Peek(key.rest) # ":" THEN Err
    ELSE AfterScenes(DeserializeScenes(Eat(key.rest)))

(* serde_json::from_str::<Scenario>(&data): the object with the field scenes *)
FromStr(text) ==
    IF Peek(text) # "{" THEN Err ELSE ScenarioField(DeserializeString(Eat(text)))

(* std::fs::read_to_string(p) *)
ReadToString(files, path) ==
    IF path \in DOMAIN files /\ "text" \in DOMAIN files[path]
    THEN Some(files[path].text) ELSE NONE

-----------------------------------------------------------------------------
(* str: the operations parse_and_send_command uses *)

IsSpace(c) == c = " "

RECURSIVE TrimStart(_)
TrimStart(s) == IF s # <<>> /\ IsSpace(Head(s)) THEN TrimStart(Tail(s)) ELSE s

RECURSIVE TrimEnd(_)
TrimEnd(s) ==
    IF s # <<>> /\ IsSpace(s[Len(s)]) THEN TrimEnd(SubSeq(s, 1, Len(s) - 1)) ELSE s

Trim(s) == TrimEnd(TrimStart(s))

UpperToLower ==
    [c \in {"A", "B", "D", "E", "G", "I", "K", "L", "M", "N", "O", "P", "R", "S",
            "T", "U"} |->
        CASE c = "A" -> "a" [] c = "B" -> "b" [] c = "D" -> "d" [] c = "E" -> "e"
          [] c = "G" -> "g" [] c = "I" -> "i" [] c = "K" -> "k" [] c = "L" -> "l"
          [] c = "M" -> "m" [] c = "N" -> "n" [] c = "O" -> "o" [] c = "P" -> "p"
          [] c = "R" -> "r" [] c = "S" -> "s" [] c = "T" -> "t" [] c = "U" -> "u"]

ToLowercase(s) ==
    [k \in 1 .. Len(s) |-> IF s[k] \in DOMAIN UpperToLower THEN UpperToLower[s[k]] ELSE s[k]]

StartsWith(s, prefix) ==
    Len(s) >= Len(prefix) /\ SubSeq(s, 1, Len(prefix)) = prefix

(* index of the first c in s, 0 when there is none *)
Find(s, c) ==
    IF \E k \in 1 .. Len(s) : s[k] = c
    THEN CHOOSE k \in 1 .. Len(s) : s[k] = c /\ \A j \in 1 .. (k - 1) : s[j] # c
    ELSE 0

(* s.splitn(2, c) *)
SplitN2(s, c) ==
    LET k == Find(s, c) IN
    IF k = 0 THEN <<s>> ELSE <<SubSeq(s, 1, k - 1), SubSeq(s, k + 1, Len(s))>>

RECURSIVE Split(_, _)
(* s.split(c) *)
Split(s, c) ==
    LET k == Find(s, c) IN
    IF k = 0 THEN <<s>> ELSE <<SubSeq(s, 1, k - 1)>> \o Split(SubSeq(s, k + 1, Len(s)), c)

(* s.split_whitespace() *)
SplitWhitespace(s) == SelectSeq(Split(s, " "), LAMBDA piece : piece # <<>>)

(* s.replace(c, "") *)
Remove(s, c) == SelectSeq(s, LAMBDA x : x # c)

(* &s[n..]: a panic when n is past the end *)
SliceFrom(s, n) == [panic |-> n > Len(s), v |-> SubSeq(s, n + 1, Len(s))]

Digits == {"0", "1", "2", "3", "4", "5", "6", "7", "8", "9"}
DigitValue(c) ==
    CASE c = "0" -> 0 [] c = "1" -> 1 [] c = "2" -> 2 [] c = "3" -> 3 [] c = "4" -> 4
      [] c = "5" -> 5 [] c = "6" -> 6 [] c = "7" -> 7 [] c = "8" -> 8 [] c = "9" -> 9

RECURSIVE DecimalValue(_)
DecimalValue(s) ==
    IF s = <<>> THEN 0
    ELSE 10 * DecimalValue(SubSeq(s, 1, Len(s) - 1)) + DigitValue(s[Len(s)])

(* s.parse::<usize>(): digits after an optional plus sign *)
ParseUsize(s) ==
    LET body == IF s # <<>> /\ Head(s) = "+" THEN Tail(s) ELSE s IN
    IF body # <<>> /\ \A k \in 1 .. Len(body) : body[k] \in Digits
    THEN [ok |-> TRUE, v |-> DecimalValue(body)]
    ELSE [ok |-> FALSE]

Kw_load == <<"l", "o", "a", "d", " ">>
Kw_anim == <<"a", "n", "i", "m", " ">>
Kw_bgm == <<"b", "g", "m", " ">>
Kw_se == <<"s", "e", " ">>
Kw_stop == <<"s", "t", "o", "p">>
Kw_talk == <<"t", "a", "l", "k", " ">>
Kw_bg == <<"b", "g", " ">>
Str_true == <<"t", "r", "u", "e">>

(* what parse_and_send_command does with one line: whether it logs the line,
   the commands it sends, whether it panics *)
ParseResult(logged, cmds, panic) == [logged |-> logged, cmds |-> cmds, panic |-> panic]

(* the minimum number of words the ANIM arm asks for before it reads a word *)
AnimMinParts == 2

ParseLoad(input_trimmed) ==
    LET parts == SplitN2(input_trimmed, " ") IN
    IF Len(parts) # 2 THEN ParseResult(TRUE, <<>>, FALSE)
    ELSE LET rest == SliceFrom(parts[1], 5) IN
         IF rest.panic THEN ParseResult(TRUE, <<>>, TRUE)
         ELSE LET idx == ParseUsize(Trim(rest.v)) IN
              IF idx.ok
              THEN ParseResult(TRUE, <<RequestLoad(idx.v, Remove(parts[2], "\""))>>, FALSE)
              ELSE ParseResult(TRUE, <<>>, FALSE)

ParseAnim(input_trimmed) ==
    LET parts == SplitWhitespace(input_trimmed) IN
    IF Len(parts) < AnimMinParts THEN ParseResult(TRUE, <<>>, FALSE)
    ELSE LET idx == ParseUsize(parts[2]) IN
         IF ~idx.ok THEN ParseResult(TRUE, <<>>, FALSE)
         ELSE IF Len(parts) < 3 THEN ParseResult(TRUE, <<>>, TRUE)
         ELSE LET loop_anim == IF Len(parts) >= 4 THEN ToLowercase(parts[4]) = Str_true
                               ELSE TRUE
              IN  ParseResult(TRUE, <<SetAnimation(idx.v, parts[3], loop_anim)>>, FALSE)

ParseTalk(input_trimmed) ==
    LET p == Split(SliceFrom(input_trimmed, 5).v, "|") IN
    IF Len(p) = 3 THEN ParseResult(TRUE, <<Dialogue(p[1], p[2], p[3])>>, FALSE)
    ELSE ParseResult(TRUE, <<>>, FALSE)

(* the path argument of BGM, SE and BG *)
PathArg(input_trimmed, n) == Remove(Trim(SliceFrom(input_trimmed, n).v), "\"")

(* AefrApp::parse_and_send_command *)
ParseAndSendCommand(input) ==
    LET input_trimmed == Trim(input)
        cmd_lower == ToLowercase(input_trimmed)
    IN  IF input_trimmed = <<>> THEN ParseResult(FALSE, <<>>, FALSE)
        ELSE IF StartsWith(cmd_lower, Kw_load) THEN ParseLoad(input_trimmed)
        ELSE IF StartsWith(cmd_lower, Kw_anim) THEN ParseAnim(input_trimmed)
        ELSE IF StartsWith(cmd_lower, Kw_bgm)
             THEN ParseResult(TRUE, <<PlayBgm(PathArg(input_trimmed, 4))>>, FALSE)
        ELSE IF StartsWith(cmd_lower, Kw_se)
             THEN ParseResult(TRUE, <<PlaySe(PathArg(input_trimmed, 3))>>, FALSE)
        ELSE IF cmd_lower = Kw_stop THEN ParseResult(TRUE, <<StopBgm>>, FALSE)
        ELSE IF StartsWith(cmd_lower, Kw_talk) THEN ParseTalk(input_trimmed)
        ELSE IF StartsWith(cmd_lower, Kw_bg)
             THEN ParseResult(TRUE, <<LoadBackground(PathArg(input_trimmed, 3))>>, FALSE)
        ELSE ParseResult(TRUE, <<>>, FALSE)


-----------------------------------------------------------------------------
(* AefrApp::new *)

InitApp(files, audio) ==
    /\ fs = files
    /\ logic_cores = LogicCores
    /\ audio_manager = audio
    /\ chan = <<>>
    /\ nsent = 0
    /\ napplied = 0
    /\ characters = [i \in Slots |-> NONE]
    /\ background = NONE
    /\ textures = {}
    /\ next_texture = 1
    /\ scenario = <<Scene(NONE, NONE, Str_OxidizedSchale, Str_Contributors, StartupText)>>
    /\ current_scene_idx = 0
    /\ target_chars = StartupText
    /\ visible_count = 0
    /\ type_timer = 0
    /\ console_open = FALSE
    /\ selected_slot = 0
    /\ console_logs = <<[tag |-> "ready"]>>
    /\ loaders = <<>>
    /\ uipc = "drain"
    /\ frame = 1
    /\ dt = 0
    /\ pending = {}
    /\ working = [w \in Workers |-> NoSlot]
    /\ updates = [i \in Slots |-> 0]
    /\ drawlist = <<>>
    /\ inputs = 0
    /\ crashed = FALSE

(* AudioManager::new().ok(): both sinks silent, or None when the device fails *)
AudioOn == [some |-> TRUE, bgm |-> NONE, se |-> <<>>]
(* AudioManager::new().ok() when no output device opens *)
AudioOff == NONE

-----------------------------------------------------------------------------
(* Textures of the egui context *)

(* ctx.load_texture: a new handle *)
LoadTexture(image) == [some |-> TRUE, id |-> next_texture, image |-> image]

(* the texture a dropped Option<SpineObject> or Option<TextureHandle> frees *)
(* variant: a dropped object whose texture stays allocated *)
TextureOfCharKept(slot) == {}
TextureOfChar(slot) == IF slot.some /\ slot.texture.some THEN {slot.texture.id} ELSE {}
TextureOfHandle(h) == IF h.some THEN {h.id} ELSE {}

-----------------------------------------------------------------------------
(* thread::spawn *)

Loader(kind, slot_idx, path) ==
    [kind |-> kind, slot_idx |-> slot_idx, path |-> path, state |-> "running", sent |-> <<>>]

(* variant: a closure that drops the error of a failed load *)
CharReplySilent(slot_idx, r) ==
    IF r.ok
    THEN <<LoadSuccess(slot_idx, r.obj, r.color_image, r.page_name, r.anims)>>
    ELSE <<>>
(* the match on the result of load_async_no_gpu in the spawned closure *)
CharReply(slot_idx, r) ==
    IF r.ok
    THEN <<LoadSuccess(slot_idx, r.obj, r.color_image, r.page_name, r.anims)>>
    ELSE <<Log([tag |-> "error", err |-> r.err])>>

(* what the closure of a spawned thread sends before it returns; `sent`
   keeps it for the thread that has exited *)
LoaderReply(files, l, id) ==
    LET f == FileAt(files, l.path) IN
    CASE l.kind = "char" ->
            CharReply(l.slot_idx, LoadAsyncNoGpu(files, l.path, id))
      [] l.kind = "background" ->
            IF f.picture THEN <<LoadBackgroundSuccess([page |-> l.path])>> ELSE <<>>
      [] l.kind = "bgm" ->
            IF f.audio # "unreadable" THEN <<AudioReady([path |-> l.path, audio |-> f.audio], TRUE)>>
            ELSE <<>>
      [] l.kind = "se" ->
            IF f.audio # "unreadable" THEN <<AudioReady([path |-> l.path, audio |-> f.audio], FALSE)>>
            ELSE <<>>

LoaderFinish(id) ==
    /\ ~crashed
    /\ id \in 1 .. Len(loaders)
    /\ loaders[id].state = "running"
    /\ LET reply == LoaderReply(fs, loaders[id], id) IN
        /\ chan' = Enqueue(chan, reply, nsent)
        /\ nsent' = nsent + Len(reply)
        /\ loaders' = [loaders EXCEPT ![id].state = "exited", ![id].sent = reply]
    /\ UNCHANGED <<fs, logic_cores, audio_manager, napplied, characters, background, textures,
                   next_texture, scenario, current_scene_idx, target_chars,
                   visible_count, type_timer, console_open, selected_slot,
                   console_logs, uipc, frame, dt, pending, working, updates,
                   drawlist, inputs, crashed>>

-----------------------------------------------------------------------------
(* AefrApp::handle_async_events: the arms of the match *)

(* the part of the UI state no arm of the match touches *)
DrainFrame ==
    UNCHANGED <<fs, logic_cores, console_open, selected_slot, uipc, frame, dt, pending, working,
                updates, drawlist, inputs, type_timer, current_scene_idx, nsent>>

(* scenes[current_scene_idx] = f(scene), or a panic when the index is out of range *)
WithCurrentScene(f(_)) ==
    IF SceneInRange(scenario, current_scene_idx)
    THEN /\ scenario' = [scenario EXCEPT ![current_scene_idx + 1] = f(@)]
         /\ crashed' = FALSE
    ELSE /\ scenario' = scenario
         /\ crashed' = TRUE

(* variant: a dialogue that is written to the first scene of the scenario *)
OnDialogueFirstScene(cmd) ==
    LET set(scene) == [scene EXCEPT !.speaker_name = cmd.name,
                                    !.speaker_aff = cmd.affiliation,
                                    !.dialogue_content = cmd.content]
    IN  /\ scenario' = [scenario EXCEPT ![1] = set(@)]
        /\ crashed' = FALSE
        /\ target_chars' = SyncSceneToUi(scenario', current_scene_idx, target_chars)
        /\ visible_count' = 0
        /\ UNCHANGED <<audio_manager, characters, background, textures, next_texture,
                       console_logs, loaders>>

OnDialogue(cmd) ==
    LET set(scene) == [scene EXCEPT !.speaker_name = cmd.name,
                                    !.speaker_aff = cmd.affiliation,
                                    !.dialogue_content = cmd.content]
    IN  /\ WithCurrentScene(set)
        /\ target_chars' = IF crashed' THEN target_chars
                           ELSE SyncSceneToUi(scenario', current_scene_idx, target_chars)
        /\ visible_count' = IF crashed' THEN visible_count ELSE 0
        /\ UNCHANGED <<audio_manager, characters, background, textures, next_texture,
                       console_logs, loaders>>

OnLog(cmd) ==
    /\ console_logs' = Append(console_logs, cmd.msg)
    /\ UNCHANGED <<audio_manager, characters, background, textures, next_texture,
                   scenario, target_chars, visible_count, loaders, crashed>>

(* variant: a request that clears its target slot while the load runs *)
OnRequestLoadClearing(cmd) ==
    /\ console_logs' = Append(console_logs, [tag |-> "parse", path |-> cmd.path])
    /\ loaders' = Append(loaders, Loader("char", cmd.slot_idx, cmd.path))
    /\ characters' = IF cmd.slot_idx \in Slots
                     THEN [characters EXCEPT ![cmd.slot_idx] = NONE]
                     ELSE characters
    /\ UNCHANGED <<audio_manager, background, textures, next_texture,
                   scenario, target_chars, visible_count, crashed>>

OnRequestLoad(cmd) ==
    /\ console_logs' = Append(console_logs, [tag |-> "parse", path |-> cmd.path])
    /\ loaders' = Append(loaders, Loader("char", cmd.slot_idx, cmd.path))
    /\ UNCHANGED <<audio_manager, characters, background, textures, next_texture,
                   scenario, target_chars, visible_count, crashed>>

(* the slot after `*slot = Some(loaded)` *)
Loaded(obj, handle) ==
    [obj EXCEPT !.texture_id = [some |-> TRUE, id |-> handle.id], !.texture = handle]

(* variant: a replacement that keeps the animation state of the occupant *)
OnLoadSuccessMerging(cmd) ==
    /\ IF cmd.slot_idx \in Slots
       THEN LET handle == LoadTexture(cmd.color_image)
                old == characters[cmd.slot_idx]
                new == Loaded(cmd.obj, handle)
            IN
            /\ characters' = [characters EXCEPT ![cmd.slot_idx] =
                                 IF old.some THEN [new EXCEPT !.state = old.state] ELSE new]
            /\ textures' = (textures \ TextureOfChar(old)) \cup {handle.id}
            /\ next_texture' = next_texture + 1
       ELSE UNCHANGED <<characters, textures, next_texture>>
    /\ UNCHANGED <<audio_manager, background, scenario, target_chars, visible_count,
                   console_logs, loaders, crashed>>

(* variant: a handler that seats the arrival in the first empty slot *)
OnLoadSuccessFirstFree(cmd) ==
    /\ IF cmd.slot_idx \in Slots
       THEN LET handle == LoadTexture(cmd.color_image)
                free == {i \in Slots : ~characters[i].some}
                seat == IF free = {} THEN cmd.slot_idx
                        ELSE CHOOSE i \in free : \A j \in free : i <= j
            IN
            /\ characters' = [characters EXCEPT ![seat] = Loaded(cmd.obj, handle)]
            /\ textures' = (textures \ TextureOfChar(characters[seat])) \cup {handle.id}
            /\ next_texture' = next_texture + 1
       ELSE UNCHANGED <<characters, textures, next_texture>>
    /\ UNCHANGED <<audio_manager, background, scenario, target_chars, visible_count,
                   console_logs, loaders, crashed>>

OnLoadSuccess(cmd) ==
    /\ IF cmd.slot_idx \in Slots
       THEN LET handle == LoadTexture(cmd.color_image) IN
            /\ characters' = [characters EXCEPT ![cmd.slot_idx] = Loaded(cmd.obj, handle)]
            /\ textures' = (textures \ TextureOfChar(characters[cmd.slot_idx])) \cup {handle.id}
            /\ next_texture' = next_texture + 1
       ELSE UNCHANGED <<characters, textures, next_texture>>
    /\ UNCHANGED <<audio_manager, background, scenario, target_chars, visible_count,
                   console_logs, loaders, crashed>>

(* variant: a removal that takes the element out of the Vec *)
OnRemoveCharacterShifting(cmd) ==
    /\ IF cmd.slot_idx \in Slots
       THEN /\ characters' = [i \in 0 .. (NumSlots - 2) |->
                                IF i < cmd.slot_idx THEN characters[i]
                                ELSE characters[i + 1]]
            /\ textures' = textures \ TextureOfChar(characters[cmd.slot_idx])
            /\ crashed' = FALSE
       ELSE /\ UNCHANGED <<characters, textures>>
            /\ crashed' = TRUE
    /\ UNCHANGED <<audio_manager, background, next_texture, scenario, target_chars,
                   visible_count, console_logs, loaders>>

OnRemoveCharacter(cmd) ==
    /\ IF cmd.slot_idx \in Slots
       THEN /\ characters' = [characters EXCEPT ![cmd.slot_idx] = NONE]
            /\ textures' = textures \ TextureOfChar(characters[cmd.slot_idx])
            /\ crashed' = FALSE
       ELSE /\ UNCHANGED <<characters, textures>>
            /\ crashed' = TRUE
    /\ UNCHANGED <<audio_manager, background, next_texture, scenario, target_chars,
                   visible_count, console_logs, loaders>>

OnLoadBackground(cmd) ==
    LET set(scene) == [scene EXCEPT !.bg_path = Some(cmd.path)] IN
    /\ loaders' = Append(loaders, Loader("background", NoSlot, cmd.path))
    /\ WithCurrentScene(set)
    /\ UNCHANGED <<audio_manager, characters, background, textures, next_texture,
                   target_chars, visible_count, console_logs>>

(* variant: a background that asks for its image again once it is shown *)
OnLoadBackgroundSuccessRetry(cmd) ==
    LET handle == LoadTexture(cmd.color_image) IN
    /\ background' = handle
    /\ textures' = (textures \ TextureOfHandle(background)) \cup {handle.id}
    /\ next_texture' = next_texture + 1
    /\ loaders' = Append(loaders, Loader("background", NoSlot, cmd.color_image.page))
    /\ UNCHANGED <<audio_manager, characters, scenario, target_chars, visible_count,
                   console_logs, crashed>>

OnLoadBackgroundSuccess(cmd) ==
    LET handle == LoadTexture(cmd.color_image) IN
    /\ background' = handle
    /\ textures' = (textures \ TextureOfHandle(background)) \cup {handle.id}
    /\ next_texture' = next_texture + 1
    /\ UNCHANGED <<audio_manager, characters, scenario, target_chars, visible_count,
                   console_logs, loaders, crashed>>

OnSetAnimation(cmd) ==
    /\ characters' =
          IF cmd.slot_idx \in Slots /\ characters[cmd.slot_idx].some
          THEN [characters EXCEPT ![cmd.slot_idx] =
                    SetAnimationByName(@, cmd.anim_name, cmd.loop_anim)]
          ELSE characters
    /\ UNCHANGED <<audio_manager, background, textures, next_texture, scenario,
                   target_chars, visible_count, console_logs, loaders, crashed>>

OnPlayBgm(cmd) ==
    LET set(scene) == [scene EXCEPT !.bgm_path = Some(cmd.path)] IN
    /\ loaders' = Append(loaders, Loader("bgm", NoSlot, cmd.path))
    /\ WithCurrentScene(set)
    /\ UNCHANGED <<audio_manager, characters, background, textures, next_texture,
                   target_chars, visible_count, console_logs>>

OnPlaySe(cmd) ==
    /\ loaders' = Append(loaders, Loader("se", NoSlot, cmd.path))
    /\ UNCHANGED <<audio_manager, characters, background, textures, next_texture,
                   scenario, target_chars, visible_count, console_logs, crashed>>

(* AudioManager::play_bgm, play_se: a source that does not decode is dropped *)
PlayBgmData(mgr, data) == IF data.audio = "ok" THEN [mgr EXCEPT !.bgm = Some(data.path)] ELSE mgr
PlaySeData(mgr, data) == IF data.audio = "ok" THEN [mgr EXCEPT !.se = Append(@, data.path)] ELSE mgr
(* AudioManager::stop_bgm *)
StopBgmSink(mgr) == [mgr EXCEPT !.bgm = NONE]

(* variant: a handler that unwraps the audio manager *)
OnAudioReadyUnwrap(cmd) ==
    /\ audio_manager' =
          IF ~audio_manager.some THEN audio_manager
          ELSE IF cmd.is_bgm THEN PlayBgmData(audio_manager, cmd.data)
          ELSE PlaySeData(audio_manager, cmd.data)
    /\ crashed' = ~audio_manager.some
    /\ UNCHANGED <<characters, background, textures, next_texture, scenario,
                   target_chars, visible_count, console_logs, loaders>>

OnAudioReady(cmd) ==
    /\ audio_manager' =
          IF ~audio_manager.some THEN audio_manager
          ELSE IF cmd.is_bgm THEN PlayBgmData(audio_manager, cmd.data)
          ELSE PlaySeData(audio_manager, cmd.data)
    /\ UNCHANGED <<characters, background, textures, next_texture, scenario,
                   target_chars, visible_count, console_logs, loaders, crashed>>

OnStopBgm(cmd) ==
    /\ audio_manager' = IF audio_manager.some THEN StopBgmSink(audio_manager)
                        ELSE audio_manager
    /\ UNCHANGED <<characters, background, textures, next_texture, scenario,
                   target_chars, visible_count, console_logs, loaders, crashed>>

(* one turn of `while let Ok(cmd) = self.rx.try_recv()` *)
DrainStep ==
    /\ uipc = "drain"
    /\ ~crashed
    /\ ~RecvEmpty(chan)
    /\ LET cmd == RecvNext(chan) IN
        /\ chan' = RecvRest(chan)
        /\ napplied' = cmd.seq
        /\ CASE cmd.type = "Dialogue" -> OnDialogue(cmd)
             [] cmd.type = "Log" -> OnLog(cmd)
             [] cmd.type = "RequestLoad" -> OnRequestLoad(cmd)
             [] cmd.type = "LoadSuccess" -> OnLoadSuccess(cmd)
             [] cmd.type = "RemoveCharacter" -> OnRemoveCharacter(cmd)
             [] cmd.type = "LoadBackground" -> OnLoadBackground(cmd)
             [] cmd.type = "LoadBackgroundSuccess" -> OnLoadBackgroundSuccess(cmd)
             [] cmd.type = "SetAnimation" -> OnSetAnimation(cmd)
             [] cmd.type = "PlayBgm" -> OnPlayBgm(cmd)
             [] cmd.type = "PlaySe" -> OnPlaySe(cmd)
             [] cmd.type = "AudioReady" -> OnAudioReady(cmd)
             [] cmd.type = "StopBgm" -> OnStopBgm(cmd)
    /\ DrainFrame


-----------------------------------------------------------------------------
(* AefrApp::update *)

(* the loop of handle_async_events ends on the first empty try_recv; then
   the frame reads stable_dt *)
DrainEnd(d) ==
    /\ uipc = "drain"
    /\ ~crashed
    /\ RecvEmpty(chan)
    /\ uipc' = "layout"
    /\ dt' = d
    /\ UNCHANGED <<fs, logic_cores, audio_manager, chan, nsent, napplied, characters, background,
                   textures, next_texture, scenario, current_scene_idx, target_chars,
                   visible_count, type_timer, console_open, selected_slot,
                   console_logs, loaders, frame, pending, working, updates,
                   drawlist, inputs, crashed>>

(* position and scale of slot i on the screen *)
LayoutChar(char, i) ==
    [char EXCEPT !.scale = (BASE_SCALE * SCREEN_H) \div BASE_HEIGHT,
                 !.position = <<(SCREEN_W * (150 + i * 175)) \div 1000,
                                SCREEN_H + (30 * SCREEN_H) \div BASE_HEIGHT>>]

(* the typewriter, then the layout of the populated slots *)
Layout ==
    /\ uipc = "layout"
    /\ ~crashed
    /\ IF visible_count < Len(target_chars)
       THEN IF type_timer + dt > TYPE_INTERVAL
            THEN visible_count' = visible_count + 1 /\ type_timer' = 0
            ELSE visible_count' = visible_count /\ type_timer' = type_timer + dt
       ELSE UNCHANGED <<visible_count, type_timer>>
    /\ characters' = [i \in Slots |->
                        IF characters[i].some THEN LayoutChar(characters[i], i)
                        ELSE characters[i]]
    /\ uipc' = "run_parallel"
    /\ UNCHANGED <<fs, logic_cores, audio_manager, chan, nsent, napplied, background, textures,
                   next_texture, scenario, current_scene_idx, target_chars,
                   console_open, selected_slot, console_logs, loaders, frame, dt,
                   pending, working, updates, drawlist, inputs, crashed>>

(* scheduler.run_parallel: the closure enters the pool, the UI thread waits *)
RunParallel ==
    /\ uipc = "run_parallel"
    /\ ~crashed
    /\ pending' = Slots
    /\ uipc' = "join"
    /\ UNCHANGED <<fs, logic_cores, audio_manager, chan, nsent, napplied, characters, background,
                   textures, next_texture, scenario, current_scene_idx, target_chars,
                   visible_count, type_timer, console_open, selected_slot,
                   console_logs, loaders, frame, dt, working, updates, drawlist,
                   inputs, crashed>>

(* variant: an iterator whose first split leaves a populated element in the
   part still to be handed out *)
HandOutAgain(left, i) ==
    IF characters[i].some /\ \A w \in Workers : working[w] = NoSlot THEN left
    ELSE left \ {i}
(* par_iter_mut hands each element of the Vec to one task *)
HandOut(left, i) == left \ {i}

(* a pool worker takes the &mut of slot i; on an empty slot the closure
   returns at once *)
WorkerBegin(w, i) ==
    /\ uipc = "join"
    /\ ~crashed
    /\ working[w] = NoSlot
    /\ i \in pending
    /\ working' = IF characters[i].some THEN [working EXCEPT ![w] = i] ELSE working
    /\ pending' = HandOut(pending, i)
    /\ UNCHANGED <<fs, logic_cores, audio_manager, chan, nsent, napplied, characters, background,
                   textures, next_texture, scenario, current_scene_idx, target_chars,
                   visible_count, type_timer, console_open, selected_slot,
                   console_logs, loaders, uipc, frame, dt, updates, drawlist,
                   inputs, crashed>>

(* variant: workers that advance one animation clock shared by the slots:
   the update of a slot also advances the slots still waiting for theirs *)
WorkerEndSharedClock(w) ==
    /\ uipc = "join"
    /\ ~crashed
    /\ working[w] # NoSlot
    /\ characters' = [j \in Slots |->
                        IF characters[j].some /\ (j = working[w] \/ updates[j] = 0)
                        THEN UpdateParallel(characters[j], dt)
                        ELSE characters[j]]
    /\ updates' = [updates EXCEPT ![working[w]] = @ + 1]
    /\ working' = [working EXCEPT ![w] = NoSlot]
    /\ UNCHANGED <<fs, logic_cores, audio_manager, chan, nsent, napplied, background, textures,
                   next_texture, scenario, current_scene_idx, target_chars,
                   visible_count, type_timer, console_open, selected_slot,
                   console_logs, loaders, uipc, frame, dt, pending, drawlist,
                   inputs, crashed>>
(* the closure of for_each on the slot the worker holds *)
WorkerEnd(w) ==
    /\ uipc = "join"
    /\ ~crashed
    /\ working[w] # NoSlot
    /\ LET i == working[w] IN
        IF characters[i].some
        THEN /\ characters' = [characters EXCEPT ![i] = UpdateParallel(@, dt)]
             /\ updates' = [updates EXCEPT ![i] = @ + 1]
        ELSE UNCHANGED <<characters, updates>>
    /\ working' = [working EXCEPT ![w] = NoSlot]
    /\ UNCHANGED <<fs, logic_cores, audio_manager, chan, nsent, napplied, background, textures,
                   next_texture, scenario, current_scene_idx, target_chars,
                   visible_count, type_timer, console_open, selected_slot,
                   console_logs, loaders, uipc, frame, dt, pending, drawlist,
                   inputs, crashed>>

(* variant: a scheduler that spawns the closure and returns at once *)
JoinAtOnce(left, held) == TRUE
(* variant: a join that also waits for the loader threads to return *)
JoinAfterLoaders(left, held) ==
    /\ left = {}
    /\ \A w \in DOMAIN held : held[w] = NoSlot
    /\ \A id \in 1 .. Len(loaders) : loaders[id].state = "exited"
(* pool.install returns when the parallel iterator has finished *)
JoinDone(left, held) == left = {} /\ \A w \in DOMAIN held : held[w] = NoSlot

Join ==
    /\ uipc = "join"
    /\ ~crashed
    /\ JoinDone(pending, working)
    /\ uipc' = "paint"
    /\ UNCHANGED <<fs, logic_cores, audio_manager, chan, nsent, napplied, characters, background,
                   textures, next_texture, scenario, current_scene_idx, target_chars,
                   visible_count, type_timer, console_open, selected_slot,
                   console_logs, loaders, frame, dt, pending, working, updates,
                   drawlist, inputs, crashed>>

RECURSIVE PaintCharsReversed(_, _)
(* variant: the slots painted from the last to the first *)
PaintCharsReversed(chars, i) ==
    IF i \notin Slots THEN <<>>
    ELSE PaintCharsReversed(chars, i + 1)
         \o (IF chars[i].some THEN PaintChar(chars[i]) ELSE <<>>)

RECURSIVE PaintChars(_, _)
(* for char in self.characters.iter().flatten() { char.paint(ui) } *)
PaintChars(chars, i) ==
    IF i \notin Slots THEN <<>>
    ELSE (IF chars[i].some THEN PaintChar(chars[i]) ELSE <<>>) \o PaintChars(chars, i + 1)

(* what the CentralPanel closure adds to the painter *)
DrawList(bg, chars, scenes, idx, shown) ==
    (IF bg.some THEN <<[kind |-> "image", texture |-> bg.id]>> ELSE <<>>)
    \o PaintChars(chars, 0)
    \o <<[kind |-> "buttons"],
         [kind |-> "dialogue", name |-> scenes[idx + 1].speaker_name,
          aff |-> scenes[idx + 1].speaker_aff, shown |-> shown]>>

Paint ==
    /\ uipc = "paint"
    /\ ~crashed
    /\ IF SceneInRange(scenario, current_scene_idx)
       THEN /\ drawlist' = DrawList(background, characters, scenario,
                                    current_scene_idx, visible_count)
            /\ uipc' = "panel"
            /\ crashed' = FALSE
       ELSE /\ crashed' = TRUE
            /\ UNCHANGED <<drawlist, uipc>>
    /\ UNCHANGED <<fs, logic_cores, audio_manager, chan, nsent, napplied, characters, background,
                   textures, next_texture, scenario, current_scene_idx, target_chars,
                   visible_count, type_timer, console_open, selected_slot,
                   console_logs, loaders, frame, dt, pending, working, updates,
                   inputs>>

(* ctx.request_repaint: the next call of update *)
EndFrame ==
    /\ frame < MaxFrames
    /\ frame' = frame + 1
    /\ uipc' = "drain"
    /\ updates' = [i \in Slots |-> 0]
    /\ drawlist' = <<>>

(* a frame in which the user does nothing *)
NoInput ==
    /\ uipc = "panel"
    /\ ~crashed
    /\ EndFrame
    /\ UNCHANGED <<fs, logic_cores, audio_manager, chan, nsent, napplied, characters, background,
                   textures, next_texture, scenario, current_scene_idx, target_chars,
                   visible_count, type_timer, console_open, selected_slot,
                   console_logs, loaders, dt, pending, working, inputs, crashed>>

(* a frame in which the user does one thing *)
Input ==
    /\ uipc = "panel"
    /\ ~crashed
    /\ inputs < MaxInputs
    /\ inputs' = inputs + 1
    /\ EndFrame

(* the CMD button *)
ToggleConsole ==
    /\ Input
    /\ console_open' = ~console_open
    /\ UNCHANGED <<fs, logic_cores, audio_manager, chan, nsent, napplied, characters, background,
                   textures, next_texture, scenario, current_scene_idx, target_chars,
                   visible_count, type_timer, selected_slot, console_logs, loaders,
                   dt, pending, working, crashed>>

-----------------------------------------------------------------------------
(* draw_creator_panel *)

(* `if let Some(cmd) = cmd_to_send { app.tx.send(cmd) }` and nothing else *)
PanelSend(cmd) ==
    /\ Input
    /\ console_open
    /\ chan' = Enqueue(chan, <<cmd>>, nsent)
    /\ nsent' = nsent + 1
    /\ UNCHANGED <<fs, logic_cores, audio_manager, napplied, characters, background, textures,
                   next_texture, scenario, current_scene_idx, target_chars,
                   visible_count, type_timer, console_open, selected_slot,
                   console_logs, loaders, dt, pending, working, crashed>>

(* the slot radio buttons *)
SelectSlot(i) ==
    /\ Input
    /\ console_open
    /\ i # selected_slot
    /\ selected_slot' = i
    /\ UNCHANGED <<fs, logic_cores, audio_manager, chan, nsent, napplied, characters, background,
                   textures, next_texture, scenario, current_scene_idx, target_chars,
                   visible_count, type_timer, console_open, console_logs, loaders,
                   dt, pending, working, crashed>>

PanelLoad(path) == PanelSend(RequestLoad(selected_slot, path))
PanelBackground(path) == PanelSend(LoadBackground(path))
PanelRemove == PanelSend(RemoveCharacter(selected_slot))

(* the audio buttons *)
PanelBgm(path) == PanelSend(PlayBgm(path))
PanelSe(path) == PanelSend(PlaySe(path))
PanelStop == PanelSend(StopBgm)

(* the save button: the scenario as JSON into the file the user names; the
   result of the write is dropped *)
PanelSaveScenario(path) ==
    /\ Input
    /\ console_open
    /\ fs' = [p \in DOMAIN fs \cup {path} |->
                IF p = path THEN TextFile(ToStringPretty(scenario)) ELSE fs[p]]
    /\ UNCHANGED <<logic_cores, audio_manager, chan, nsent, napplied, characters,
                   background, textures, next_texture, scenario, current_scene_idx,
                   target_chars, visible_count, type_timer, console_open,
                   selected_slot, console_logs, loaders, dt, pending, working,
                   crashed>>

(* `if let Ok(data) = read_to_string(p) { if let Ok(s) = from_str(&data)` *)
ParseData(data) == IF data.some THEN FromStr(data.v) ELSE Err

(* the body of the two `if let`: the scenario replaced, the first scene shown *)
InstallScenario(parsed) ==
    IF parsed.ok
    THEN /\ scenario' = parsed.v
         /\ current_scene_idx' = 0
         /\ target_chars' = SyncSceneToUi(parsed.v, 0, target_chars)
         /\ visible_count' = Len(target_chars')
    ELSE UNCHANGED <<scenario, current_scene_idx, target_chars, visible_count>>

(* the reload button: a file that reads and parses replaces the scenario, any
   other leaves it *)
PanelReloadScenario(path) ==
    /\ Input
    /\ console_open
    /\ InstallScenario(ParseData(ReadToString(fs, path)))
    /\ crashed' = ~SceneInRange(scenario', current_scene_idx')
    /\ UNCHANGED <<fs, logic_cores, audio_manager, chan, nsent, napplied, characters,
                   background, textures, next_texture, type_timer, console_open,
                   selected_slot, console_logs, loaders, dt, pending, working>>

(* the scene buttons: what a button that acts leaves behind; show_all is the
   `visible_count = target_chars.len()` of the buttons that have it *)
PanelScenes(scenes, idx, show_all) ==
    /\ Input
    /\ console_open
    /\ scenario' = scenes
    /\ current_scene_idx' = idx
    /\ target_chars' = SyncSceneToUi(scenes, idx, target_chars)
    /\ visible_count' = IF show_all THEN Len(target_chars') ELSE visible_count
    /\ UNCHANGED <<fs, logic_cores, audio_manager, chan, nsent, napplied, characters,
                   background, textures, next_texture, type_timer, console_open,
                   selected_slot, console_logs, loaders, dt, pending, working,
                   crashed>>

(* a button whose condition does not hold *)
PanelIdle ==
    /\ Input
    /\ console_open
    /\ UNCHANGED <<fs, logic_cores, audio_manager, chan, nsent, napplied, characters,
                   background, textures, next_texture, scenario, current_scene_idx,
                   target_chars, visible_count, type_timer, console_open,
                   selected_slot, console_logs, loaders, dt, pending, working,
                   crashed>>

(* the previous and next buttons *)
PanelPrevScene ==
    IF current_scene_idx > 0
    THEN PanelScenes(scenario, current_scene_idx - 1, TRUE)
    ELSE PanelIdle

PanelNextScene ==
    IF current_scene_idx < Len(scenario) - 1
    THEN PanelScenes(scenario, current_scene_idx + 1, TRUE)
    ELSE PanelIdle

(* scenes.insert(index, scene), scenes.remove(index), with indices from 0 *)
InsertAt(scenes, index, scene) ==
    SubSeq(scenes, 1, index) \o <<scene>> \o SubSeq(scenes, index + 1, Len(scenes))
RemoveAt(scenes, index) ==
    SubSeq(scenes, 1, index) \o SubSeq(scenes, index + 2, Len(scenes))

(* the add button: a copy of the current scene without its text, put after it *)
PanelAddScene ==
    LET new_scene == [scenario[current_scene_idx + 1] EXCEPT !.dialogue_content = <<>>]
    IN  PanelScenes(InsertAt(scenario, current_scene_idx + 1, new_scene),
                    current_scene_idx + 1, FALSE)

(* the delete button *)
PanelDeleteScene ==
    IF Len(scenario) > 1
    THEN PanelScenes(RemoveAt(scenario, current_scene_idx),
                     Min(current_scene_idx, Len(scenario) - 2), FALSE)
    ELSE PanelIdle

(* the jump field: a DragValue clamped to 1..=len, acting when it changes *)
PanelJump(jump) ==
    /\ jump \in 1 .. Len(scenario)
    /\ jump # current_scene_idx + 1
    /\ PanelScenes(scenario, jump - 1, TRUE)

-----------------------------------------------------------------------------
(* The editor driven from the creator panel *)

DtChoices == {50}
CharPicks == {PathA, PathB, PathX}
BgPicks == {PathG, PathX}

Init == InitApp(MainFiles, AudioOn)

Frame ==
    \/ DrainStep
    \/ \E d \in DtChoices : DrainEnd(d)
    \/ Layout
    \/ RunParallel
    \/ \E w \in Workers, i \in Slots : WorkerBegin(w, i)
    \/ \E w \in Workers : WorkerEnd(w)
    \/ Join
    \/ Paint
    \/ \E id \in 1 .. Len(loaders) : LoaderFinish(id)

Next ==
    \/ Frame
    \/ NoInput
    \/ ToggleConsole
    \/ \E i \in 0 .. MaxSelSlot : SelectSlot(i)
    \/ \E path \in CharPicks : PanelLoad(path)
    \/ \E path \in BgPicks : PanelBackground(path)
    \/ PanelRemove

Spec == Init /\ [][Next]_vars

(* The steps of the UI thread and of the pool workers it waits for.  eframe
   calls update again after request_repaint and rayon runs every task handed
   to the pool, so these steps are taken when they stay enabled; nothing makes
   a loader thread return. *)
UiStep ==
    \/ DrainStep
    \/ \E d \in DtChoices : DrainEnd(d)
    \/ Layout
    \/ RunParallel
    \/ \E w \in Workers, i \in Slots : WorkerBegin(w, i)
    \/ \E w \in Workers : WorkerEnd(w)
    \/ Join
    \/ Paint
    \/ NoInput

SpecFair == Init /\ [][Next]_vars /\ WF_vars(UiStep)


-----------------------------------------------------------------------------
(* The stage: the editor from the frame after the user opened the console,
   loading characters into several slots *)

StagePicks == {PathA, PathB}

InitStageOn(files, cores) ==
    /\ fs = files
    /\ logic_cores = cores
    /\ audio_manager = AudioOn
    /\ chan = <<>>
    /\ nsent = 0
    /\ napplied = 0
    /\ characters = [i \in Slots |-> NONE]
    /\ background = NONE
    /\ textures = {}
    /\ next_texture = 1
    /\ scenario = <<Scene(NONE, NONE, Str_OxidizedSchale, Str_Contributors, StartupText)>>
    /\ current_scene_idx = 0
    /\ target_chars = StartupText
    /\ visible_count = 1
    /\ type_timer = 0
    /\ console_open = TRUE
    /\ selected_slot = 0
    /\ console_logs = <<[tag |-> "ready"]>>
    /\ loaders = <<>>
    /\ uipc = "drain"
    /\ frame = 1
    /\ dt = 0
    /\ pending = {}
    /\ working = [w \in 1 .. WorkerCount(cores) |-> NoSlot]
    /\ updates = [i \in Slots |-> 0]
    /\ drawlist = <<>>
    /\ inputs = 0
    /\ crashed = FALSE

InitStage == InitStageOn(MainFiles, LogicCores)

NextStage ==
    \/ Frame
    \/ NoInput
    \/ \E i \in 0 .. MaxSelSlot : SelectSlot(i)
    \/ \E path \in StagePicks : PanelLoad(path)

SpecStage == InitStage /\ [][NextStage]_vars

-----------------------------------------------------------------------------
(* The clock: the stage with frame times below, at and above the cap *)

ClockDts == {0, 16, 33, 34, 50}

NextClock ==
    \/ DrainStep
    \/ \E d \in ClockDts : DrainEnd(d)
    \/ Layout
    \/ RunParallel
    \/ \E w \in Workers, i \in Slots : WorkerBegin(w, i)
    \/ \E w \in Workers : WorkerEnd(w)
    \/ Join
    \/ Paint
    \/ \E id \in 1 .. Len(loaders) : LoaderFinish(id)
    \/ NoInput
    \/ PanelLoad(PathA)

SpecClock == InitStage /\ [][NextClock]_vars

-----------------------------------------------------------------------------
(* The scheduler on machines of every size: the stage with the pool that
   AefrScheduler::new builds for 1..MaxCores logical cores *)

MaxCores == 6

InitSched == \E cores \in 1 .. MaxCores : InitStageOn(MainFiles, cores)

NextSched ==
    \/ DrainStep
    \/ \E d \in DtChoices : DrainEnd(d)
    \/ Layout
    \/ RunParallel
    \/ \E w \in DOMAIN working, i \in Slots : WorkerBegin(w, i)
    \/ \E w \in DOMAIN working : WorkerEnd(w)
    \/ Join
    \/ Paint
    \/ \E id \in 1 .. Len(loaders) : LoaderFinish(id)
    \/ NoInput
    \/ PanelLoad(PathA)

SpecSched == InitSched /\ [][NextSched]_vars

-----------------------------------------------------------------------------
(* The painter: the stage with a skeleton of every draw order of up to
   MaxDrawOrder slots *)

MaxDrawOrder == 2

Attachments ==
    {NoAttachment, Region, MeshAttachment(3, 1), MeshAttachment(5, 3), Clipping, BoundingBox}

DrawOrders == UNION {[1 .. n -> Attachments] : n \in 0 .. MaxDrawOrder}

PaintFiles(draw_order) ==
    PathA :> File("ok", "ok", "ok", "absent", <<ClipIdle>>, draw_order, FALSE, "unreadable")

InitPaint == \E draw_order \in DrawOrders : InitStageOn(PaintFiles(draw_order), LogicCores)

NextPaint ==
    \/ Frame
    \/ NoInput
    \/ PanelLoad(PathA)

SpecPaint == InitPaint /\ [][NextPaint]_vars

-----------------------------------------------------------------------------
(* The editor on a machine without an audio device *)

AudioPicks == {PathM, PathG, PathX}

InitMute == InitApp(MainFiles, AudioOff)

NextMute ==
    \/ Frame
    \/ NoInput
    \/ ToggleConsole
    \/ PanelLoad(PathA)
    \/ \E path \in AudioPicks : PanelBgm(path)
    \/ \E path \in AudioPicks : PanelSe(path)
    \/ PanelStop

SpecMute == InitMute /\ [][NextMute]_vars

-----------------------------------------------------------------------------
(* The removal: the user asked for a character in slot 0, the drain spawned
   its loader thread, and while the thread runs the user pressed the remove
   button: the RemoveCharacter is in the channel and the drain of the next
   frame begins.  Frames and inputs are counted from here; the user may ask
   for another character in the slot afterwards. *)

InitRemoval ==
    /\ fs = MainFiles
    /\ logic_cores = LogicCores
    /\ audio_manager = AudioOn
    /\ chan = Enqueue(<<>>, <<RemoveCharacter(0)>>, 1)
    /\ nsent = 2
    /\ napplied = 1
    /\ characters = [i \in Slots |-> NONE]
    /\ background = NONE
    /\ textures = {}
    /\ next_texture = 1
    /\ scenario = <<Scene(NONE, NONE, Str_OxidizedSchale, Str_Contributors, StartupText)>>
    /\ current_scene_idx = 0
    /\ target_chars = StartupText
    /\ visible_count = 1
    /\ type_timer = 0
    /\ console_open = TRUE
    /\ selected_slot = 0
    /\ console_logs = <<[tag |-> "ready"], [tag |-> "parse", path |-> PathA]>>
    /\ loaders = <<Loader("char", 0, PathA)>>
    /\ uipc = "drain"
    /\ frame = 1
    /\ dt = 0
    /\ pending = {}
    /\ working = [w \in Workers |-> NoSlot]
    /\ updates = [i \in Slots |-> 0]
    /\ drawlist = <<>>
    /\ inputs = 0
    /\ crashed = FALSE

NextRemoval ==
    \/ Frame
    \/ NoInput
    \/ PanelLoad(PathB)

SpecRemoval == InitRemoval /\ [][NextRemoval]_vars

-----------------------------------------------------------------------------
(* The stop: the user asked for the music m, the drain spawned the thread
   that reads the file and recorded the path in the scene, and while the
   thread runs the user asked to stop the music: the StopBgm is in the channel
   and the drain of the next frame begins.  Frames and inputs are counted from
   here; the user may ask for the music n afterwards. *)

PathN == <<"n">>

StopFiles ==
    [p \in DOMAIN MainFiles \cup {PathN} |->
        IF p = PathN THEN File("bad", "bad", "absent", "absent", <<>>, <<>>, FALSE, "ok")
        ELSE MainFiles[p]]

InitStop ==
    /\ fs = StopFiles
    /\ logic_cores = LogicCores
    /\ audio_manager = AudioOn
    /\ chan = Enqueue(<<>>, <<StopBgm>>, 1)
    /\ nsent = 2
    /\ napplied = 1
    /\ characters = [i \in Slots |-> NONE]
    /\ background = NONE
    /\ textures = {}
    /\ next_texture = 1
    /\ scenario = <<Scene(NONE, Some(PathM), Str_OxidizedSchale, Str_Contributors,
                          StartupText)>>
    /\ current_scene_idx = 0
    /\ target_chars = StartupText
    /\ visible_count = 1
    /\ type_timer = 0
    /\ console_open = TRUE
    /\ selected_slot = 0
    /\ console_logs = <<[tag |-> "ready"]>>
    /\ loaders = <<Loader("bgm", NoSlot, PathM)>>
    /\ uipc = "drain"
    /\ frame = 1
    /\ dt = 0
    /\ pending = {}
    /\ working = [w \in Workers |-> NoSlot]
    /\ updates = [i \in Slots |-> 0]
    /\ drawlist = <<>>
    /\ inputs = 0
    /\ crashed = FALSE

NextStop ==
    \/ Frame
    \/ NoInput
    \/ PanelLoad(PathA)
    \/ PanelBgm(PathN)

SpecStop == InitStop /\ [][NextStop]_vars

-----------------------------------------------------------------------------
(* The drain: the editor with the console open asking for every kind of work
   a loader thread does (character, background, music), with
   files that load and a file that does not, under fair scheduling of the UI
   thread; nothing makes a loader thread return *)

DrainPicks == {PathA, PathX}

NextDrain ==
    \/ Frame
    \/ NoInput
    \/ \E path \in DrainPicks : PanelLoad(path)
    \/ PanelBackground(PathG)
    \/ PanelBgm(PathM)

SpecDrain == InitStage /\ [][NextDrain]_vars /\ WF_vars(UiStep)

-----------------------------------------------------------------------------
(* The editor saving and reloading scenarios.  It starts on a scenario that  *)
(* was reloaded from a file written by hand.                                 *)

MaxScenes == 2

ScriptScenes ==
    {Scene(Some(<<>>), Some(PathM), <<Quote>>, <<>>, <<"a", Newline, "b">>),
     [Scene(NONE, Some(<<"C", ":", Backslash>>), <<Backslash, "n">>,
            <<Backslash, Quote>>, <<Null>>)
        EXCEPT !.char_paths = [i \in Slots |-> IF i = 0 THEN Some(PathA)
                                               ELSE IF i = 4 THEN Some(<<>>) ELSE NONE],
               !.char_anims = [i \in Slots |-> IF i = 0 THEN Some(ClipIdle) ELSE NONE]]}

ScriptScenarios ==
    UNION {[1 .. n -> ScriptScenes] : n \in 1 .. MaxScenes}

ScriptPicks == {PathS, PathG}

InitScriptOn(files) ==
    /\ fs = files
    /\ logic_cores = LogicCores
    /\ audio_manager = AudioOn
    /\ chan = <<>>
    /\ nsent = 0
    /\ napplied = 0
    /\ characters = [i \in Slots |-> NONE]
    /\ background = NONE
    /\ textures = {}
    /\ next_texture = 1
    /\ scenario \in ScriptScenarios
    /\ current_scene_idx = 0
    /\ target_chars = SyncSceneToUi(scenario, 0, StartupText)
    /\ visible_count = Len(target_chars)
    /\ type_timer = 0
    /\ console_open = TRUE
    /\ selected_slot = 0
    /\ console_logs = <<[tag |-> "ready"]>>
    /\ loaders = <<>>
    /\ uipc = "drain"
    /\ frame = 1
    /\ dt = 0
    /\ pending = {}
    /\ working = [w \in Workers |-> NoSlot]
    /\ updates = [i \in Slots |-> 0]
    /\ drawlist = <<>>
    /\ inputs = 0
    /\ crashed = FALSE

InitScript == InitScriptOn(MainFiles)

NextScript ==
    \/ Frame
    \/ NoInput
    \/ PanelLoad(PathA)
    \/ PanelBackground(PathG)
    \/ PanelSaveScenario(PathS)
    \/ \E path \in ScriptPicks : PanelReloadScenario(path)

SpecScript == InitScript /\ [][NextScript]_vars

-----------------------------------------------------------------------------
(* The editor moving through the scenes of a scenario.  A scenario file
   written by hand with no scene is on the disk. *)

PathE == <<"e">>
EmptyScenarioText == <<"{", Quote, "scenes", Quote, ":", " ", "[", "]", "}">>

ScenesFiles ==
    [p \in DOMAIN MainFiles \cup {PathE} |->
        IF p = PathE THEN TextFile(EmptyScenarioText) ELSE MainFiles[p]]

InitScenes == InitScriptOn(ScenesFiles)

NextScenes ==
    \/ Frame
    \/ NoInput
    \/ PanelLoad(PathA)
    \/ PanelPrevScene
    \/ PanelNextScene
    \/ PanelAddScene
    \/ PanelDeleteScene
    \/ \E jump \in 1 .. (MaxScenes + 1) : PanelJump(jump)
    \/ PanelReloadScenario(PathE)

SpecScenes == InitScenes /\ [][NextScenes]_vars

-----------------------------------------------------------------------------
(* The console of the creator panel *)

LinesSubmitted ==
    Cardinality({k \in 1 .. Len(console_logs) : console_logs[k].tag = "input"})

(* the user submits the console input: parse_and_send_command(input) *)
ConsoleSubmit(input) ==
    /\ uipc = "panel"
    /\ ~crashed
    /\ console_open
    /\ inputs < MaxInputs
    /\ LinesSubmitted < MaxLines
    /\ inputs' = inputs + 1
    /\ LET r == ParseAndSendCommand(input) IN
        /\ console_logs' = IF r.logged
                           THEN Append(console_logs, [tag |-> "input", line |-> Trim(input)])
                           ELSE console_logs
        /\ crashed' = r.panic
        /\ IF r.panic
           THEN UNCHANGED <<chan, nsent, uipc, frame, updates, drawlist>>
           ELSE /\ chan' = Enqueue(chan, r.cmds, nsent)
                /\ nsent' = nsent + Len(r.cmds)
                /\ EndFrame
    /\ UNCHANGED <<fs, logic_cores, audio_manager, napplied, characters, background, textures,
                   next_texture, scenario, current_scene_idx, target_chars,
                   visible_count, type_timer, console_open, selected_slot, loaders,
                   dt, pending, working>>

Line_load_0_a == <<"l", "o", "a", "d", " ", "0", " ", "a">>
Line_LOAD_1_a == <<"L", "O", "A", "D", " ", "1", " ", "a">>
Line_load_7_a == <<"l", "o", "a", "d", " ", "7", " ", "a">>
Line_load_x_a == <<"l", "o", "a", "d", " ", "x", " ", "a">>
Line_load == <<"l", "o", "a", "d">>
Line_anim_0_walk == <<"a", "n", "i", "m", " ", "0", " ">> \o ClipWalk
Line_ANIM_0_walk_false == <<"A", "N", "I", "M", " ", "0", " ">> \o ClipWalk
                              \o <<" ", "f", "a", "l", "s", "e">>
Line_anim_0_walk_TRUE == Line_anim_0_walk \o <<" ", "T", "R", "U", "E">>
Line_anim_0_run == <<"a", "n", "i", "m", " ", "0", " ">> \o ClipRun
Line_anim_1_walk == <<"a", "n", "i", "m", " ", "1", " ">> \o ClipWalk
Line_anim_7_walk == <<"a", "n", "i", "m", " ", "7", " ">> \o ClipWalk
Line_anim_x_walk == <<"a", "n", "i", "m", " ", "x", " ">> \o ClipWalk
Line_anim_0 == <<"a", "n", "i", "m", " ", "0">>
Line_anim == <<"a", "n", "i", "m">>
Line_talk_n_a_c == <<"t", "a", "l", "k", " ", "n", "|", "a", "|", "c">>
Line_TALK_n_a_c == <<"T", "A", "L", "K", " ", "n", "|", "a", "|", "c">>
Line_talk_n_a == <<"t", "a", "l", "k", " ", "n", "|", "a">>
Line_talk_n_a_c_d == Line_talk_n_a_c \o <<"|", "d">>
Line_bg_g == <<"b", "g", " ", "g">>
Line_bg_x == <<"B", "G", " ", "\"", "x", "\"">>
Line_bgm_m == <<"b", "g", "m", " ", "m">>
Line_bgm_x == <<"b", "g", "m", " ", "x">>
Line_se_m == <<"s", "e", " ", "m">>
Line_stop == <<" ", "S", "T", "O", "P", " ">>
Line_jump_3 == <<"j", "u", "m", "p", " ", "3">>
Line_blank == <<" ", " ">>

WellFormedLines ==
    {Line_load_0_a, Line_LOAD_1_a, Line_anim_0_walk, Line_ANIM_0_walk_false,
     Line_anim_0_walk_TRUE, Line_anim_0_run, Line_anim_1_walk, Line_talk_n_a_c,
     Line_TALK_n_a_c, Line_bg_g, Line_bg_x, Line_bgm_m, Line_bgm_x, Line_se_m, Line_stop}

(* lines outside the grammar: unknown keyword, missing or non-numeric slot,
   ANIM without a clip, TALK without three fields *)
MalformedLines ==
    {Line_load_x_a, Line_load, Line_anim_x_walk, Line_anim_0, Line_anim,
     Line_talk_n_a, Line_talk_n_a_c_d, Line_jump_3}

(* well-formed in shape, with a slot index outside 0..4 *)
OutOfRangeLines == {Line_load_7_a, Line_anim_7_walk}

ConsoleLines == WellFormedLines \cup MalformedLines \cup OutOfRangeLines \cup {Line_blank}

NextConsole ==
    \/ Frame
    \/ NoInput
    \/ ToggleConsole
    \/ PanelLoad(PathA)
    \/ \E input \in ConsoleLines : ConsoleSubmit(input)

SpecConsole == Init /\ [][NextConsole]_vars

-----------------------------------------------------------------------------
(* The console of an editor that holds a scenario of one or two scenes: the
   user loads a character, moves to the next scene and submits a TALK line *)

Line_Talk_n_a_c == <<"T", "a", "l", "K", " ", "n", "|", "a", "|", "c">>

TalkLines == {Line_talk_n_a_c, Line_TALK_n_a_c, Line_Talk_n_a_c}

InitTalk == InitScriptOn(MainFiles)

NextTalk ==
    \/ Frame
    \/ NoInput
    \/ PanelLoad(PathA)
    \/ PanelNextScene
    \/ \E input \in TalkLines : ConsoleSubmit(input)

SpecTalk == InitTalk /\ [][NextTalk]_vars

-----------------------------------------------------------------------------
(* The stage on which the user has picked a background and selected slot 1:
   the LoadBackground is in the channel *)

InitScene ==
    /\ fs = MainFiles
    /\ logic_cores = LogicCores
    /\ audio_manager = AudioOn
    /\ chan = Enqueue(<<>>, <<LoadBackground(PathG)>>, 0)
    /\ nsent = 1
    /\ napplied = 0
    /\ characters = [i \in Slots |-> NONE]
    /\ background = NONE
    /\ textures = {}
    /\ next_texture = 1
    /\ scenario = <<Scene(NONE, NONE, Str_OxidizedSchale, Str_Contributors, StartupText)>>
    /\ current_scene_idx = 0
    /\ target_chars = StartupText
    /\ visible_count = 1
    /\ type_timer = 0
    /\ console_open = TRUE
    /\ selected_slot = 1
    /\ console_logs = <<[tag |-> "ready"]>>
    /\ loaders = <<>>
    /\ uipc = "drain"
    /\ frame = 1
    /\ dt = 0
    /\ pending = {}
    /\ working = [w \in Workers |-> NoSlot]
    /\ updates = [i \in Slots |-> 0]
    /\ drawlist = <<>>
    /\ inputs = 0
    /\ crashed = FALSE

NextScene ==
    \/ Frame
    \/ NoInput
    \/ \E i \in 0 .. MaxSelSlot : SelectSlot(i)
    \/ PanelLoad(PathA)
    \/ PanelBackground(PathG)

SpecScene == InitScene /\ [][NextScene]_vars

-----------------------------------------------------------------------------
(* The loader on every kind of resource bundle *)

Bundles ==
    {File(atlas, image, skel, json, anims, <<Region>>, FALSE, "unreadable") :
        atlas \in {"ok", "bad", "nopages"}, image \in {"ok", "bad"},
        skel \in {"absent", "ok", "bad"}, json \in {"absent", "ok", "bad"},
        anims \in {<<>>, <<ClipIdle, ClipWalk>>}}

InitLoader == \E bundle \in Bundles : InitApp(PathA :> bundle, AudioOn)

NextLoader ==
    \/ Frame
    \/ NoInput
    \/ ToggleConsole
    \/ PanelLoad(PathA)

SpecLoader == InitLoader /\ [][NextLoader]_vars


-----------------------------------------------------------------------------
(* Properties of the frame loop *)

Populated == {i \in Slots : characters[i].some}
Holders(i) == {w \in Workers : working[w] = i}
Exited(kind) ==
    {id \in 1 .. Len(loaders) : loaders[id].kind = kind /\ loaders[id].state = "exited"}
Meshes == {k \in 1 .. Len(drawlist) : drawlist[k].kind = "mesh"}

(* C1: within a frame the drain applies the commands one at a time in the
   order they were sent (each applied command carries the send number after
   the one applied before it), it applies them only while the UI thread is in
   handle_async_events, it ends only when every command sent so far has been
   applied and the channel is empty, and while it runs nothing of this frame
   has been updated or painted. *)
C1_DrainInOrderBeforeFrame ==
    /\ [](uipc = "drain" => drawlist = <<>> /\ \A i \in Slots : updates[i] = 0)
    /\ [][/\ napplied' # napplied => uipc = "drain" /\ napplied' = napplied + 1
          /\ uipc = "drain" /\ uipc' # "drain" =>
                chan = <<>> /\ napplied = nsent /\ uipc' = "layout"]_vars

(* a drain has applied commands of the UI thread and of a loader thread and
   the frame went on to its layout *)
C1_Witness ==
    /\ uipc = "layout"
    /\ napplied = nsent
    /\ napplied >= 3
    /\ \E id \in 1 .. Len(loaders) : Len(loaders[id].sent) = 1

(* C2: no slot is held by two threads: a slot is handed to at most one pool
   worker, workers hold slots only while the UI thread waits in run_parallel,
   a step that changes a slot is either a step of the UI thread in the drain
   or the layout, or the step of the one worker holding that slot, and a step
   of a loader thread changes no slot. *)
C2_OneMutatorPerSlot ==
    /\ [](/\ \A i \in Slots : Cardinality(Holders(i)) <= 1
          /\ (\E w \in Workers : working[w] # NoSlot) => uipc = "join")
    /\ [][/\ characters' # characters =>
                \/ uipc \in {"drain", "layout"} /\ \A w \in Workers : working[w] = NoSlot
                \/ /\ uipc = "join"
                   /\ \E w \in Workers :
                        /\ working[w] # NoSlot
                        /\ working'[w] = NoSlot
                        /\ \A j \in Slots \ {working[w]} : characters'[j] = characters[j]
          /\ loaders' # loaders /\ Len(loaders') = Len(loaders) =>
                characters' = characters]_vars

(* a worker holds a populated slot while a command waits in the channel *)
C2_Witness ==
    /\ \E w \in Workers : working[w] # NoSlot /\ characters[working[w]].some
    /\ chan # <<>>

(* C3: the frame paints only after the parallel update has finished: when
   the UI thread is past run_parallel every populated slot has been updated
   exactly once in this frame and no empty slot has, no slot is ever updated
   twice in a frame, and the meshes of the draw list are those of the
   populated slots. *)
C3_PaintAfterJoin ==
    /\ \A i \in Slots : updates[i] <= 1 /\ (updates[i] = 1 => characters[i].some)
    /\ uipc \in {"paint", "panel"} \/ drawlist # <<>> =>
          /\ JoinDone(pending, working)
          /\ \A i \in Slots : updates[i] = IF characters[i].some THEN 1 ELSE 0
    /\ {drawlist[k].id : k \in Meshes} \subseteq {characters[i].id : i \in Populated}
    /\ uipc = "panel" => Cardinality(Meshes) = Cardinality(Populated)

(* a frame has painted the mesh of a slot it updated *)
C3_Witness ==
    /\ uipc = "panel"
    /\ Meshes # {}
    /\ \E i \in Populated : updates[i] = 1
    /\ \E i \in Slots : ~characters[i].some /\ updates[i] = 0


-----------------------------------------------------------------------------
(* Properties of the loads *)

(* the atlas, its page image and the skeleton file the loader reads for it
   (the .skel when there is one, the .json otherwise) all load *)
Loadable(f) ==
    /\ f.atlas = "ok"
    /\ f.image = "ok"
    /\ f.skel = "ok" \/ (f.skel = "absent" /\ f.json = "ok")

(* this step is the drain applying the command at the head of the channel *)
Draining(type) ==
    /\ uipc = "drain"
    /\ chan # <<>>
    /\ Head(chan).type = type
    /\ napplied' = Head(chan).seq

(* this step is loader thread id sending its reply and returning *)
Finishing(id) == loaders[id].state = "running" /\ loaders'[id].state = "exited"

(* C4: every drained RequestLoad spawns one loader thread for its slot and
   path, and that thread sends exactly one command and exits: LoadSuccess for
   its slot when atlas, image and skeleton load, a Log otherwise; a thread
   still running has sent nothing. *)
C4_LoaderSendsExactlyOne ==
    /\ [](\A id \in 1 .. Len(loaders) :
            LET l == loaders[id] IN
            l.kind = "char" =>
                IF l.state = "running" THEN l.sent = <<>>
                ELSE /\ Len(l.sent) = 1
                     /\ IF Loadable(FileAt(fs, l.path))
                        THEN l.sent[1].type = "LoadSuccess"
                             /\ l.sent[1].slot_idx = l.slot_idx
                        ELSE l.sent[1].type = "Log")
    /\ [][/\ Draining("RequestLoad") =>
                loaders' = Append(loaders, [kind |-> "char",
                                            slot_idx |-> Head(chan).slot_idx,
                                            path |-> Head(chan).path,
                                            state |-> "running", sent |-> <<>>])
          /\ \A id \in 1 .. Len(loaders) :
                Finishing(id) =>
                    /\ Len(chan') = Len(chan) + 1
                    /\ nsent' = nsent + 1
                    /\ chan'[Len(chan')] = [seq |-> nsent'] @@ loaders'[id].sent[1]]_vars

(* a load has failed and the Log of its loader has reached the console *)
C4_Witness ==
    /\ \E id \in Exited("char") : loaders[id].sent[1].type = "Log"
    /\ \E k \in 1 .. Len(console_logs) : console_logs[k].tag = "error"
    /\ chan = <<>>

(* C5: draining a LoadSuccess for a slot replaces the whole slot by the
   payload of that command, with a new texture made from the payload's image,
   whatever the slot held, and changes no other slot; so every populated slot
   holds one character all of whose parts (skeleton data, texture image) come
   from one load for that slot, and after two racing loads the one drained
   last. *)
C5_LastLoadSuccessWins ==
    /\ [](\A i \in Populated :
            LET c == characters[i]
                l == loaders[c.id]
            IN  /\ l.kind = "char" /\ l.slot_idx = i
                /\ c.skeleton_data.path = l.path
                /\ c.texture.some /\ c.texture.image = [page |-> l.path]
                /\ c.texture_id = [some |-> TRUE, id |-> c.texture.id]
                /\ c.texture.id \in textures
                /\ c.state.anim = <<>> \/
                      \E k \in 1 .. Len(c.skeleton_data.anims) :
                          c.skeleton_data.anims[k] = c.state.anim)
    /\ [][\A i \in Slots :
            Draining("LoadSuccess") /\ Head(chan).slot_idx = i =>
                /\ [characters'[i] EXCEPT !.texture = NONE, !.texture_id = NONE]
                        = Head(chan).obj
                /\ characters'[i].texture.some
                /\ characters'[i].texture.image = Head(chan).color_image
                /\ characters'[i].texture.id \notin textures
                /\ \A j \in Slots \ {i} : characters'[j] = characters[j]]_vars

(* two loads for one slot ran at once (the one requested first finished
   last), both LoadSuccess commands are drained, and the slot holds the
   character of the one drained last *)
C5_Witness ==
    \E id1, id2 \in Exited("char") :
        /\ id1 < id2
        /\ loaders[id1].slot_idx = loaders[id2].slot_idx
        /\ loaders[id1].sent[1].type = "LoadSuccess"
        /\ loaders[id2].sent[1].type = "LoadSuccess"
        /\ loaders[id1].path # loaders[id2].path
        /\ napplied = nsent
        /\ characters[loaders[id1].slot_idx].some
        /\ characters[loaders[id1].slot_idx].id = id1


(* the operation of thread id failed: the resource did not load *)
Failed(id) ==
    LET l == loaders[id]
        f == FileAt(fs, l.path)
    IN  CASE l.kind = "char" -> ~Loadable(f)
          [] l.kind = "background" -> ~f.picture
          [] OTHER -> f.audio = "unreadable"

(* C9: a load that fails leaves its target as it was: no step of a failed
   load (the drain of its request, the run of its loader thread, the drain of
   a Log) changes a slot, the background or a texture; so every occupant of
   a slot comes from a character load that succeeded and the background from
   an image that decoded. *)
C9_FailedLoadLeavesTarget ==
    /\ [](/\ \A i \in Populated :
                LET l == loaders[characters[i].id] IN
                l.kind = "char" /\ l.slot_idx = i /\ Loadable(FileAt(fs, l.path))
          /\ background.some => FileAt(fs, background.image.page).picture)
    /\ [][(\/ Draining("RequestLoad") /\ ~Loadable(FileAt(fs, Head(chan).path))
           \/ Draining("LoadBackground") /\ ~FileAt(fs, Head(chan).path).picture
           \/ Draining("Log")
           \/ \E id \in 1 .. Len(loaders) : Finishing(id) /\ Failed(id))
          => /\ characters' = characters
             /\ background' = background
             /\ textures' = textures]_vars

(* a load into a populated slot has failed, its Log is drained, and the
   occupant is the character loaded before *)
C9_Witness ==
    \E id \in Exited("char") :
        /\ Failed(id)
        /\ loaders[id].slot_idx \in Populated
        /\ characters[loaders[id].slot_idx].id < id
        /\ \E k \in 1 .. Len(console_logs) : console_logs[k].tag = "error"
        /\ chan = <<>>

(* C8, as claimed: every thread whose operation failed has sent one Log. *)
C8_EveryFailureLogged ==
    \A id \in 1 .. Len(loaders) :
        loaders[id].state = "exited" /\ Failed(id) =>
            Len(loaders[id].sent) = 1 /\ loaders[id].sent[1].type = "Log"

(* C10, as claimed: a load whose .skel does not parse and whose .json does
   ends in LoadSuccess. *)
C10_FallsBackToJson ==
    \A id \in Exited("char") :
        LET f == FileAt(fs, loaders[id].path) IN
        f.atlas = "ok" /\ f.image = "ok" /\ f.skel = "bad" /\ f.json = "ok" =>
            Len(loaders[id].sent) = 1 /\ loaders[id].sent[1].type = "LoadSuccess"

-----------------------------------------------------------------------------
(* Properties of the console *)

(* the step in which the console handles the line *)
Submitting(input) ==
    console_logs' = Append(console_logs, [tag |-> "input", line |-> Trim(input)])

Requested(slot_idx, path) ==
    \/ \E k \in 1 .. Len(chan) :
          chan[k].type = "RequestLoad" /\ chan[k].slot_idx = slot_idx /\ chan[k].path = path
    \/ \E id \in 1 .. Len(loaders) :
          /\ loaders[id].kind = "char"
          /\ loaders[id].slot_idx = slot_idx
          /\ loaders[id].path = path

(* C6, as claimed: a well-formed LOAD line for a slot in 0..4 with valid
   resource files starts the load of that slot: once the console has handled
   the line the UI thread runs on and the request for the slot is in the
   channel or its loader thread exists. *)
C6_LoadLineStartsLoad ==
    \A k \in 1 .. Len(console_logs) :
        /\ console_logs[k].tag = "input" /\ console_logs[k].line = Line_load_0_a =>
              ~crashed /\ Requested(0, PathA)
        /\ console_logs[k].tag = "input" /\ console_logs[k].line = Line_LOAD_1_a =>
              ~crashed /\ Requested(1, PathA)

(* C7, as claimed: a line outside the grammar is ignored: handling it sends
   no command, changes no slot, background or scene, and does not panic. *)
C7_MalformedLineIgnored ==
    [][\A input \in MalformedLines :
        Submitting(input) =>
            /\ ~crashed'
            /\ chan' = chan /\ nsent' = nsent
            /\ characters' = characters
            /\ background' = background
            /\ scenario' = scenario]_vars


-----------------------------------------------------------------------------
(* Properties of the textures *)

(* C11: textures are created only by the UI thread while it drains a
   LoadSuccess or a LoadBackgroundSuccess: every LoadSuccess in the channel
   and every LoadSuccess a loader thread has sent carries a character with
   no texture and no texture id, a step that creates a texture is the drain
   of one of these two commands, and a step of a loader thread creates
   none. *)
C11_TexturesOnlyOnUiThread ==
    /\ [](/\ \A k \in 1 .. Len(chan) :
                chan[k].type = "LoadSuccess" =>
                    ~chan[k].obj.texture.some /\ ~chan[k].obj.texture_id.some
          /\ \A id \in Exited("char") :
                \A k \in 1 .. Len(loaders[id].sent) :
                    loaders[id].sent[k].type = "LoadSuccess" =>
                        /\ ~loaders[id].sent[k].obj.texture.some
                        /\ ~loaders[id].sent[k].obj.texture_id.some)
    /\ [][/\ (next_texture' # next_texture \/ ~(textures' \subseteq textures)) =>
                Draining("LoadSuccess") \/ Draining("LoadBackgroundSuccess")
          /\ \A id \in 1 .. Len(loaders) :
                Finishing(id) => next_texture' = next_texture /\ textures' = textures]_vars

(* a loader thread has sent a character that waits in the channel while the
   UI thread already holds the texture it made for an earlier character *)
C11_Witness ==
    /\ \E k \in 1 .. Len(chan) : chan[k].type = "LoadSuccess"
    /\ \E i \in Populated : characters[i].texture.some /\ characters[i].texture.id \in textures


-----------------------------------------------------------------------------
(* Properties of the frame loop under fair scheduling of the UI thread *)

LoaderCommands == {"LoadSuccess", "Log", "LoadBackgroundSuccess", "AudioReady"}

(* the last frame of the run has been painted *)
LastFramePainted == frame = MaxFrames /\ uipc = "panel"

(* C12: the frame loop never waits on a loader: whether or not the loader
   threads ever return, every frame of the run is drained, updated and
   painted, and when the last one has been painted every command the panel
   sent has been applied: what is left in the channel was sent by loader
   threads after the last drain. *)
C12_FrameLoopNeverWaits ==
    /\ <>[]LastFramePainted
    /\ [](LastFramePainted =>
            \A k \in 1 .. Len(chan) : chan[k].type \in LoaderCommands)

(* the last frame is painted while a loader thread has not returned, and a
   command sent after that thread was spawned has been applied *)
C12_Witness ==
    /\ LastFramePainted
    /\ \E id \in 1 .. Len(loaders) :
          /\ loaders[id].state = "running"
          /\ \E id2 \in 1 .. Len(loaders) : id2 > id
    /\ chan = <<>>


-----------------------------------------------------------------------------
(* Properties of the parallel update *)

(* C13: the parallel update gives each slot what updating it alone gives:
   inside run_parallel every step that changes the slots is the update of one
   populated slot not yet updated in this frame, it sets that slot to
   update_parallel of its own value and the frame's dt and leaves every other
   slot as it was, the dt does not change while the workers run, and at
   the join every populated slot has had exactly this one update, whichever
   worker took it and in whatever order. *)
C13_ParallelUpdateAsAlone ==
    /\ [](uipc \in {"paint", "panel"} => \A i \in Populated : updates[i] = 1)
    /\ [][uipc = "join" =>
            /\ dt' = dt
            /\ characters' # characters =>
                  \E i \in Populated :
                      /\ updates[i] = 0 /\ updates'[i] = 1
                      /\ characters' = [characters EXCEPT ![i] = UpdateParallel(@, dt)]]_vars

(* two workers are updating two populated slots at once *)
C13_Witness ==
    /\ uipc = "join"
    /\ \E w1, w2 \in Workers :
          /\ w1 # w2
          /\ working[w1] \in Populated
          /\ working[w2] \in Populated
          /\ working[w1] > working[w2]
          /\ characters[working[w1]].state.time > 0


-----------------------------------------------------------------------------
(* Properties of loads into different slots *)

(* the loader threads that load a character for slot i *)
LoadersOf(i) ==
    {id \in 1 .. Len(loaders) : loaders[id].kind = "char" /\ loaders[id].slot_idx = i}

(* the character as the loader built it: without the texture handle the
   drain gave it, the place the layout gave it and the time it has played *)
AsLoaded(char) ==
    [char EXCEPT !.texture = NONE, !.texture_id = NONE, !.position = <<0, 0>>,
                 !.scale = BASE_SCALE, !.skeleton = SetupPose, !.state.time = 0]

(* C14: loads for different slots do not touch each other: the drain of a
   LoadSuccess for slot i changes no other slot, and once the one load of a
   slot has been drained the slot holds the character and the page image that
   load produced, in whatever order the loaders of the other slots finished
   and were drained. *)
C14_LoadsOfDifferentSlotsIndependent ==
    /\ [](\A i \in Slots : \A id \in LoadersOf(i) :
            (/\ LoadersOf(i) = {id}
             /\ loaders[id].state = "exited"
             /\ loaders[id].sent[1].type = "LoadSuccess"
             /\ \A k \in 1 .. Len(chan) :
                   ~(chan[k].type = "LoadSuccess" /\ chan[k].slot_idx = i))
            => /\ characters[i].some
               /\ AsLoaded(characters[i]) = loaders[id].sent[1].obj
               /\ characters[i].texture.image = loaders[id].sent[1].color_image)
    /\ [][\A i \in Slots :
            Draining("LoadSuccess") /\ Head(chan).slot_idx = i =>
                \A j \in Slots \ {i} : characters'[j] = characters[j]]_vars

(* loads for slots 0 and 1 were in flight together, the one requested last
   was drained first, and both slots hold their characters *)
C14_Witness ==
    /\ LoadersOf(0) # {} /\ LoadersOf(1) # {}
    /\ characters[0].some /\ characters[1].some
    /\ characters[0].id < characters[1].id
    /\ characters[0].texture.id > characters[1].texture.id
    /\ chan = <<>>


-----------------------------------------------------------------------------
(* Properties of the slots *)

(* C15: there are always exactly 5 slots, numbered 0..4, each empty or
   holding one character built by one loader thread; an empty slot is held by
   no worker and is not updated, and the meshes of a painted frame are one per
   populated slot, each of a populated slot. *)
C15_FiveSlotsEmptyOrOne ==
    /\ DOMAIN characters = 0 .. 4
    /\ Cardinality(DOMAIN characters) = 5
    /\ \A i \in DOMAIN characters :
          \/ characters[i] = NONE
          \/ characters[i].some /\ characters[i].id \in 1 .. Len(loaders)
    /\ \A w \in Workers : working[w] # NoSlot => characters[working[w]].some
    /\ \A i \in DOMAIN characters : ~characters[i].some => updates[i] = 0
    /\ \A k \in Meshes : \E i \in Populated : drawlist[k].id = characters[i].id
    /\ uipc = "panel" => Cardinality(Meshes) = Cardinality(Populated)

(* a character was loaded and removed again: the frame is painted with five
   empty slots and no mesh *)
C15_Witness ==
    /\ uipc = "panel"
    /\ Populated = {}
    /\ next_texture > 1
    /\ textures = {}
    /\ Meshes = {}
    /\ drawlist # <<>>


-----------------------------------------------------------------------------
(* Properties of the animation clock *)

(* the time update_parallel adds to the track of slot i in this step *)
AppliedDelta(i) == characters'[i].state.time - characters[i].state.time

(* C16: whenever update_parallel runs on a slot, the time it adds to the
   track is 33 ms when the measured frame time is over 33 ms and the measured
   frame time itself otherwise. *)
C16_DeltaClampedToCap ==
    [][\A i \in Slots :
        updates'[i] = updates[i] + 1 =>
            AppliedDelta(i) = IF dt > 33 THEN 33 ELSE dt]_vars

(* a character has been updated in a frame over the cap and in a frame under
   it: its track stands at 33 + 16 ms *)
C16_Witness ==
    \E i \in Populated :
        /\ updates[i] = 1
        /\ dt = 16
        /\ characters[i].state.time = 33 + 16


-----------------------------------------------------------------------------
(* Properties of the scheduler *)

Max(a, b) == IF a > b THEN a ELSE b

(* the threads of the pool *)
PoolThreads == DOMAIN working

(* C17: the pool has max(1, logical cores - 2) workers on every machine with
   at least one logical core; machines with 1, 2, 3 and 4 cores get 1, 1, 1
   and 2 workers. *)
C17_WorkerCount ==
    /\ logic_cores >= 1
    /\ PoolThreads = 1 .. Max(1, logic_cores - 2)
    /\ logic_cores = 1 => Cardinality(PoolThreads) = 1
    /\ logic_cores = 2 => Cardinality(PoolThreads) = 1
    /\ logic_cores = 3 => Cardinality(PoolThreads) = 1
    /\ logic_cores = 4 => Cardinality(PoolThreads) = 2

(* on a machine with 2 logical cores the one worker of the pool updates a
   character *)
C17_Witness ==
    /\ logic_cores = 2
    /\ PoolThreads = {1}
    /\ working[1] \in Populated


-----------------------------------------------------------------------------
(* Properties of the painter *)

(* vertices and indices an attachment accounts for: 4 and 6 for a region,
   the declared vertex count and the triangle indices for a mesh, nothing for
   an empty slot or any other kind of attachment *)
VerticesOf(attachment) ==
    CASE attachment.kind = "region" -> 4
      [] attachment.kind = "mesh" -> attachment.world_vertices_length \div 2
      [] OTHER -> 0
IndicesOf(attachment) ==
    CASE attachment.kind = "region" -> 6
      [] attachment.kind = "mesh" -> attachment.triangles_count
      [] OTHER -> 0

RECURSIVE SumVertices(_)
SumVertices(order) ==
    IF order = <<>> THEN 0 ELSE VerticesOf(Head(order)) + SumVertices(Tail(order))
RECURSIVE SumIndices(_)
SumIndices(order) ==
    IF order = <<>> THEN 0 ELSE IndicesOf(Head(order)) + SumIndices(Tail(order))

(* the draw order of the skeleton the character in the mesh was loaded from *)
DrawOrderOf(shape) == FileAt(fs, loaders[shape.id].path).slots

(* C18: the mesh paint emits for a character has as many vertices as the sum
   over the slots of its draw order of 4 for a region attachment and the
   declared vertex count for a mesh attachment; empty slots and attachments
   of other kinds add no vertex and no index. *)
C18_VertexCount ==
    \A k \in Meshes :
        /\ drawlist[k].vertices = SumVertices(DrawOrderOf(drawlist[k]))
        /\ drawlist[k].indices = SumIndices(DrawOrderOf(drawlist[k]))
        /\ (\A n \in 1 .. Len(DrawOrderOf(drawlist[k])) :
                DrawOrderOf(drawlist[k])[n].kind \notin {"region", "mesh"})
            => drawlist[k].vertices = 0 /\ drawlist[k].indices = 0

(* a frame has painted a skeleton whose draw order is a clipping attachment
   and a mesh attachment of 5 vertices *)
C18_Witness ==
    \E k \in Meshes :
        /\ Len(DrawOrderOf(drawlist[k])) = 2
        /\ DrawOrderOf(drawlist[k])[1].kind = "clipping"
        /\ DrawOrderOf(drawlist[k])[2].kind = "mesh"
        /\ drawlist[k].vertices = 5


-----------------------------------------------------------------------------
(* Properties of the audio *)

AudioCommands == {"PlayBgm", "PlaySe", "AudioReady", "StopBgm"}

(* C19: when the audio device fails at startup the editor starts with no
   audio manager and stays so: the frame loop runs, and the drain of every
   PlayBgm, PlaySe, AudioReady and StopBgm leaves the audio manager absent
   (nothing plays), logs nothing and does not panic. *)
C19_AudioDisabledIsSilent ==
    /\ [](~audio_manager.some /\ ~crashed)
    /\ [][\A type \in AudioCommands :
            Draining(type) =>
                /\ audio_manager' = audio_manager
                /\ console_logs' = console_logs
                /\ ~crashed'
                /\ uipc' = "drain"]_vars

(* without audio device, a music file was read and its AudioReady drained, a
   StopBgm was drained too, and the frame went on to its layout *)
C19_Witness ==
    /\ ~audio_manager.some
    /\ \E id \in Exited("bgm") :
          Len(loaders[id].sent) = 1 /\ loaders[id].sent[1].data.audio = "ok"
    /\ napplied = nsent
    /\ nsent = 3
    /\ uipc = "layout"

-----------------------------------------------------------------------------
(* Properties of the scenario files *)

(* the save button writes the file in this step *)
Saving == uipc = "panel" /\ PathS \in DOMAIN fs' /\ (PathS \in DOMAIN fs => fs'[PathS] # fs[PathS])
(* the reload button reads the saved file in this step *)
Reloading == PanelReloadScenario(PathS) /\ PathS \in DOMAIN fs

(* C20: saving a scenario and loading the saved result reproduces the
   scenario exactly: the text a save writes parses, and parses to the scenes
   in memory at the save (their number, order, and every field, an absent
   option staying absent); a reload of the saved file puts exactly the scenes
   the text parses to in memory, at the first scene. *)
C20_SaveLoadRoundTrip ==
    [][/\ Saving =>
            LET parsed == FromStr(fs'[PathS].text)
            IN  /\ parsed.ok
                /\ parsed.v = scenario
                /\ Len(parsed.v) = Len(scenario)
       /\ Reloading =>
            /\ FromStr(fs[PathS].text).ok
            /\ scenario' = FromStr(fs[PathS].text).v
            /\ current_scene_idx' = 0]_vars

(* a scenario of two scenes, with escaped characters, an absent and an empty
   option, was saved; the background of its first scene was then changed, and
   the reload of the saved file brought the saved scenes back *)
C20_Witness ==
    /\ PathS \in DOMAIN fs
    /\ FromStr(fs[PathS].text).ok
    /\ scenario = FromStr(fs[PathS].text).v
    /\ Len(scenario) = 2
    /\ scenario[1].bg_path = NONE
    /\ scenario[1].char_paths[4] = Some(<<>>)
    /\ scenario[1].speaker_name = <<Backslash, "n">>
    /\ scenario[2].dialogue_content = <<"a", Newline, "b">>
    /\ \E id \in 1 .. Len(loaders) : loaders[id].kind = "background"
    /\ inputs = 3

-----------------------------------------------------------------------------
(* Properties of the mesh *)

(* the vertices and the indices written before the n-th slot of the order *)
VerticesBefore(order, n) == SumVertices(SubSeq(order, 1, n - 1))
IndicesBefore(order, n) == SumIndices(SubSeq(order, 1, n - 1))

(* C21: in the mesh paint builds, the indices of each attachment are its own
   triangle indices plus the number of vertices already written for this
   character: every index of the finished mesh is less than the number of its
   vertices and lies among the vertices of the attachment it came from. *)
C21_IndicesOffsetByVertexCount ==
    \A k \in Meshes :
        LET mesh == drawlist[k].mesh
            order == DrawOrderOf(drawlist[k])
        IN  /\ \A j \in 1 .. Len(mesh.indices) : mesh.indices[j] < Len(mesh.vertices)
            /\ \A n \in 1 .. Len(order) : \A t \in 1 .. IndicesOf(order[n]) :
                  /\ mesh.indices[IndicesBefore(order, n) + t]
                        = TrianglesOf(order[n])[t] + VerticesBefore(order, n)
                  /\ mesh.indices[IndicesBefore(order, n) + t] >= VerticesBefore(order, n)
                  /\ mesh.indices[IndicesBefore(order, n) + t] < VerticesBefore(order, n + 1)

(* a frame has painted a skeleton of a region and a mesh attachment of five
   vertices: the indices of the mesh attachment start at 4 *)
C21_Witness ==
    \E k \in Meshes :
        /\ DrawOrderOf(drawlist[k]) = <<Region, MeshAttachment(5, 3)>>
        /\ drawlist[k].mesh.indices = <<0, 1, 2, 2, 3, 0, 4, 5, 6, 7, 8, 4, 5, 6, 7>>
        /\ Len(drawlist[k].mesh.vertices) = 9


(* C27: every vertex paint writes is at x = wx * scale + position.x and
   y = (-wy) * scale + position.y, for (wx, wy) the world vertex in the space
   of the skeleton: Y is negated, then scaled by the display scale of the
   character, then moved by its screen position; X is scaled and moved and
   not negated. *)
C27_VertexFlipScaleTranslate ==
    \A k \in Meshes :
        LET mesh == drawlist[k].mesh
            order == DrawOrderOf(drawlist[k])
            scale == drawlist[k].scale
            position == drawlist[k].position
        IN  \A n \in 1 .. Len(order) : \A j \in 1 .. VerticesOf(order[n]) :
                LET wx == ComputeWorldVertices(order[n])[2 * j - 1]
                    wy == ComputeWorldVertices(order[n])[2 * j]
                    pos == mesh.vertices[VerticesBefore(order, n) + j].pos
                IN  /\ pos[1] = wx * scale + position[1]
                    /\ pos[2] = (0 - wy) * scale + position[2]

(* the character of slot 0, laid out at (192, 750) with scale 450, was
   painted: the corner (-1, -2) of its region is at (-258, 1650) *)
C27_Witness ==
    \E k \in Meshes :
        /\ drawlist[k].position = <<192, 750>>
        /\ drawlist[k].scale = 450
        /\ DrawOrderOf(drawlist[k]) # <<>>
        /\ DrawOrderOf(drawlist[k])[1] = Region
        /\ drawlist[k].mesh.vertices # <<>>
        /\ drawlist[k].mesh.vertices[1].pos = <<-258, 1650>>

-----------------------------------------------------------------------------
(* Properties of the character textures *)

(* the textures the slots and the background hold *)
TexturesHeld ==
    {characters[i].texture.id : i \in {j \in Populated : characters[j].texture.some}}
    \cup TextureOfHandle(background)

(* C22: character textures and populated slots correspond one to one: every
   populated slot holds a character with a texture of its own bound, which no
   other slot and not the background holds, so that paint draws it; the
   allocated textures are exactly those held; and the texture of a character
   that a LoadSuccess replaces or a RemoveCharacter removes is allocated no
   longer and held by nothing. *)
C22_TexturesMatchSlots ==
    /\ [](/\ \A i \in Populated :
                /\ characters[i].texture.some
                /\ characters[i].texture_id = [some |-> TRUE, id |-> characters[i].texture.id]
                /\ characters[i].texture.id \in textures
                /\ \A j \in Populated \ {i} :
                      characters[j].texture.id # characters[i].texture.id
                /\ background.some => background.id # characters[i].texture.id
                /\ uipc = "panel" =>
                      \E k \in Meshes : drawlist[k].texture = characters[i].texture.id
          /\ textures = TexturesHeld)
    /\ [][\A i \in Populated :
            (~characters'[i].some \/ characters'[i].texture.id # characters[i].texture.id)
            => /\ Draining("LoadSuccess") \/ Draining("RemoveCharacter")
               /\ characters[i].texture.id \notin textures'
               /\ \A j \in Slots :
                     characters'[j].some => characters'[j].texture.id # characters[i].texture.id
               /\ background'.some => background'.id # characters[i].texture.id]_vars

(* the character of slot 0 was replaced by a second load: the slot holds the
   second texture, the only one allocated *)
C22_Witness ==
    /\ Populated = {0}
    /\ characters[0].texture.id = 2
    /\ textures = {2}
    /\ next_texture = 3
    /\ uipc = "panel"

-----------------------------------------------------------------------------
(* Properties of the order within a frame *)

(* the populated slots below slot i *)
PopulatedBelow(i) == {j \in Populated : j < i}

(* C23: within each frame the draw list is built in this order: the
   background first when one is set, then the character of every populated
   slot in increasing slot index, then the UI overlays; and position and scale
   of every populated slot are those the layout of this frame computes before
   any pose is updated: the pose updates happen only between the layout and
   the paint. *)
C23_FrameOrder ==
    /\ [](uipc = "panel" =>
            LET b == IF background.some THEN 1 ELSE 0
                n == Len(drawlist)
            IN  /\ n = b + Cardinality(Populated) + 2
                /\ background.some =>
                      drawlist[1].kind = "image" /\ drawlist[1].texture = background.id
                /\ \A i \in Populated :
                      LET shape == drawlist[b + Cardinality(PopulatedBelow(i)) + 1]
                      IN  shape.kind = "mesh" /\ shape.texture = characters[i].texture.id
                /\ drawlist[n - 1].kind = "buttons"
                /\ drawlist[n].kind = "dialogue")
    /\ [](uipc \in {"run_parallel", "join", "paint", "panel"} =>
            \A i \in Populated :
                /\ characters[i].scale = (BASE_SCALE * SCREEN_H) \div BASE_HEIGHT
                /\ characters[i].position[1] = (SCREEN_W * (150 + i * 175)) \div 1000
                /\ characters[i].position[2] = SCREEN_H + (30 * SCREEN_H) \div BASE_HEIGHT)
    /\ [][/\ updates' # updates /\ uipc' # "drain" => uipc = "join" /\ uipc' = "join"
          /\ uipc' = "run_parallel" /\ uipc # "run_parallel" => uipc = "layout"
          /\ uipc' = "join" => uipc \in {"run_parallel", "join"}
          /\ uipc' = "paint" /\ uipc # "paint" => uipc = "join"
          /\ drawlist' # drawlist /\ drawlist' # <<>> => uipc = "paint"]_vars

(* a frame has painted the background and the characters of slots 0 and 1,
   of which the one of slot 1 was loaded first *)
C23_Witness ==
    /\ uipc = "panel"
    /\ background.some
    /\ Populated = {0, 1}
    /\ characters[1].texture.id < characters[0].texture.id
    /\ Len(drawlist) = 5

-----------------------------------------------------------------------------
(* Properties of the ANIM line *)

(* the ANIM lines of the grammar with a slot in 0..4, and what each asks for *)
AnimLines ==
    {[line |-> Line_anim_0_walk, slot |-> 0, clip |-> ClipWalk, loop |-> TRUE],
     [line |-> Line_ANIM_0_walk_false, slot |-> 0, clip |-> ClipWalk, loop |-> FALSE],
     [line |-> Line_anim_0_walk_TRUE, slot |-> 0, clip |-> ClipWalk, loop |-> TRUE],
     [line |-> Line_anim_0_run, slot |-> 0, clip |-> ClipRun, loop |-> TRUE],
     [line |-> Line_anim_1_walk, slot |-> 1, clip |-> ClipWalk, loop |-> TRUE]}

(* the clip is one of the definition the character was loaded from *)
HasClip(char, clip) ==
    \E k \in 1 .. Len(char.skeleton_data.anims) : char.skeleton_data.anims[k] = clip

(* C24: a console line ANIM <slot> <clip> [loop] with the slot in 0..4 sends
   one SetAnimation for that slot and clip, looping when the third argument
   is absent or is `true` in any letter case and not looping otherwise; its
   drain sets the track of a populated slot whose definition has the clip to
   that clip from its start with that loop flag, and changes nothing of an
   empty slot or when the clip is unknown. *)
C24_AnimLine ==
    [][/\ \A a \in AnimLines :
            Submitting(a.line) =>
                /\ ~crashed'
                /\ nsent' = nsent + 1
                /\ Len(chan') = Len(chan) + 1
                /\ SubSeq(chan', 1, Len(chan)) = chan
                /\ chan'[Len(chan')].type = "SetAnimation"
                /\ chan'[Len(chan')].slot_idx = a.slot
                /\ chan'[Len(chan')].anim_name = a.clip
                /\ chan'[Len(chan')].loop_anim = a.loop
       /\ Draining("SetAnimation") =>
            LET cmd == Head(chan)
                i == cmd.slot_idx
            IN  IF i \in Populated /\ HasClip(characters[i], cmd.anim_name)
                THEN /\ characters'[i].state.anim = cmd.anim_name
                     /\ characters'[i].state.loop_anim = cmd.loop_anim
                     /\ characters'[i].state.time = 0
                     /\ [characters'[i] EXCEPT !.state = characters[i].state] = characters[i]
                     /\ \A j \in Slots \ {i} : characters'[j] = characters[j]
                ELSE characters' = characters]_vars

(* the character of slot 0 plays walk without looping: the line
   ANIM 0 walk false was drained *)
C24_Witness ==
    /\ 0 \in Populated
    /\ characters[0].state.anim = ClipWalk
    /\ ~characters[0].state.loop_anim
    /\ \E k \in 1 .. Len(console_logs) :
          console_logs[k].tag = "input" /\ console_logs[k].line = Line_ANIM_0_walk_false

-----------------------------------------------------------------------------
(* Properties of the scenes *)

(* C29, as claimed: in every reachable state the scenario has at least one
   scene and current_scene_idx is less than the number of scenes, whatever
   previous, next, add, delete, jump and reload did, so that indexing the
   current scene never fails. *)
C29_CurrentSceneExists ==
    /\ Len(scenario) >= 1
    /\ current_scene_idx < Len(scenario)
    /\ ~crashed


-----------------------------------------------------------------------------
(* Properties of the TALK line *)

TalkName == <<"n">>
TalkAffiliation == <<"a">>
TalkContent == <<"c">>

(* C25: a console line TALK n|a|c, its keyword in any letter case, enqueues
   one Dialogue command and nothing else; the drain of that command sets the
   speaker name, the affiliation and the dialogue text of the current scene to
   n, a and c, leaves the other fields of the scene, every other scene, the
   current scene index and every character slot as they were, shows the new
   text and restarts the typewriter from zero visible characters *)
C25_TalkLine ==
    [][/\ \A input \in TalkLines :
            Submitting(input) =>
                /\ chan' = Enqueue(chan, <<Dialogue(TalkName, TalkAffiliation, TalkContent)>>,
                                   nsent)
                /\ Len(chan') = Len(chan) + 1
                /\ UNCHANGED <<scenario, characters, visible_count, target_chars>>
       /\ Draining("Dialogue") =>
            /\ Head(chan).name = TalkName
            /\ Head(chan).affiliation = TalkAffiliation
            /\ Head(chan).content = TalkContent
            /\ Len(scenario') = Len(scenario)
            /\ \A k \in 1 .. Len(scenario) :
                  scenario'[k] =
                      IF k = current_scene_idx + 1
                      THEN [scenario[k] EXCEPT !.speaker_name = TalkName,
                                               !.speaker_aff = TalkAffiliation,
                                               !.dialogue_content = TalkContent]
                      ELSE scenario[k]
            /\ target_chars' = TalkContent
            /\ visible_count' = 0
            /\ UNCHANGED <<characters, current_scene_idx, background, crashed>>]_vars

(* the dialogue of a TALK line has been written to the second of two scenes
   while a character is on the stage *)
C25_Witness ==
    /\ current_scene_idx = 1
    /\ Len(scenario) = 2
    /\ scenario[2].speaker_name = TalkName
    /\ scenario[2].speaker_aff = TalkAffiliation
    /\ scenario[2].dialogue_content = TalkContent
    /\ scenario[1].dialogue_content # TalkContent
    /\ target_chars = TalkContent
    /\ visible_count = 0
    /\ \E i \in Slots : characters[i] # NONE


-----------------------------------------------------------------------------
(* Properties of the loaded character *)

(* the track of the character is on the first clip of the definition, looping
   and at its start, or on no clip when the definition has none *)
OnFirstClip(state, anims) ==
    IF anims = <<>>
    THEN state.anim = <<>>
    ELSE state.anim = anims[1] /\ state.loop_anim /\ state.time = 0

(* C26: the character a successful load delivers has its animation track on
   the first clip of the skeleton definition with looping enabled; a
   definition with no clips still yields one LoadSuccess, whose character has
   no active clip; the drain puts the character into its slot with that track *)
C26_DefaultTrackFirstClip ==
    /\ [](\A id \in Exited("char") :
            LET f == FileAt(fs, loaders[id].path) IN
            Loadable(f) =>
                /\ Len(loaders[id].sent) = 1
                /\ loaders[id].sent[1].type = "LoadSuccess"
                /\ loaders[id].sent[1].anims = f.anims
                /\ OnFirstClip(loaders[id].sent[1].obj.state, f.anims))
    /\ [][Draining("LoadSuccess") =>
            LET cmd == Head(chan) IN
            /\ characters'[cmd.slot_idx].some
            /\ characters'[cmd.slot_idx].state = cmd.obj.state
            /\ OnFirstClip(characters'[cmd.slot_idx].state, cmd.anims)]_vars

(* a load of a definition with clips has delivered its character, which is in
   its slot on the first clip, looping *)
C26_Witness ==
    \E id \in Exited("char") :
        /\ Len(loaders[id].sent) = 1
        /\ loaders[id].sent[1].type = "LoadSuccess"
        /\ loaders[id].sent[1].anims = <<ClipIdle, ClipWalk>>
        /\ loaders[id].sent[1].obj.state.anim = ClipIdle
        /\ loaders[id].sent[1].obj.state.loop_anim
        /\ characters[loaders[id].slot_idx].some
        /\ characters[loaders[id].slot_idx].id = id


-----------------------------------------------------------------------------
(* Properties of the drain loop *)

(* this step is the drain applying the command at the head of the channel *)
DrainingAny == uipc = "drain" /\ chan # <<>> /\ napplied' = Head(chan).seq

Returned == {id \in 1 .. Len(loaders) : loaders[id].state = "exited"}

(* C28: the drain loop of every frame terminates.  The drain of a command
   takes it off the channel, sends nothing and spawns at most one loader
   thread; the drain of a command a loader sent spawns none; a loader thread
   sends at most one command, of the kinds LoadSuccess, Log,
   LoadBackgroundSuccess and AudioReady, and only as it returns; so the threads
   are no more than the user's requests and the commands no more than the
   requests plus the threads that returned; and a drain that has begun reaches
   the empty channel and goes on to the layout (or the UI thread has
   panicked) *)
C28_DrainTerminates ==
    /\ [][DrainingAny =>
            /\ chan' = Tail(chan)
            /\ nsent' = nsent
            /\ Len(loaders') \in {Len(loaders), Len(loaders) + 1}
            /\ SubSeq(loaders', 1, Len(loaders)) = loaders
            /\ Head(chan).type \in LoaderCommands => loaders' = loaders]_vars
    /\ [](\A id \in 1 .. Len(loaders) :
            /\ Len(loaders[id].sent) <= 1
            /\ \A k \in 1 .. Len(loaders[id].sent) :
                  loaders[id].sent[k].type \in LoaderCommands
            /\ loaders[id].state = "running" => loaders[id].sent = <<>>)
    /\ [](/\ Len(loaders) <= inputs
          /\ nsent <= inputs + Cardinality(Returned))
    /\ (uipc = "drain") ~> (crashed \/ (uipc = "layout" /\ chan = <<>>))

(* a drain has ended on the empty channel after it applied commands that
   loader threads of two kinds sent, while another thread still runs *)
C28_Witness ==
    /\ uipc = "layout"
    /\ chan = <<>>
    /\ napplied = nsent
    /\ Cardinality({loaders[id].kind : id \in Returned}) >= 2
    /\ \E id \in Returned : loaders[id].sent # <<>>
    /\ \E id \in 1 .. Len(loaders) : loaders[id].state = "running"


-----------------------------------------------------------------------------
(* Properties of the removal of a character *)

(* the character that loader thread id delivered is in slot i *)
PopulatedBy(id, i) == characters[i].some /\ characters[i].id = id

(* C30, as claimed: once a RemoveCharacter for slot i has been drained the
   slot stays empty until a load for slot i requested after the removal
   succeeds: the load that was in flight when the removal was drained (the
   first thread, spawned before the removal was sent) never puts its character
   into the slot; only the threads of later requests do *)
C30_InFlightLoadDoesNotRepopulate ==
    \A id \in 1 .. Len(loaders) :
        PopulatedBy(id, loaders[1].slot_idx) => id > 1


-----------------------------------------------------------------------------
(* Properties of the music *)

(* the music of the file path plays *)
BgmPlaying(path) == audio_manager.some /\ audio_manager.bgm = Some(path)

(* C31, as claimed: once a StopBgm has been drained no music plays until a
   PlayBgm sent after the StopBgm is drained and its audio is ready: the
   AudioReady of the PlayBgm sent before the stop (the music m, whose thread
   ran when the stop was sent) never starts the music; only the music asked
   for afterwards plays *)
C31_StoppedMusicStaysStopped == ~BgmPlaying(PathM)


-----------------------------------------------------------------------------
(* Properties of the paths a scene records *)

(* the image at path decodes; the music at path is read and decodes *)
BackgroundLoads(path) == FileAt(fs, path).picture
BgmLoads(path) == FileAt(fs, path).audio = "ok"

(* the drain of a background request whose image does not load leaves the
   scenario as it was *)
FailedBackgroundKeepsPath ==
    Draining("LoadBackground") /\ ~BackgroundLoads(Head(chan).path) =>
        scenario' = scenario

(* the drain of a music request whose file does not load leaves the scenario
   as it was *)
FailedBgmKeepsPath ==
    Draining("PlayBgm") /\ ~BgmLoads(Head(chan).path) => scenario' = scenario

(* C32, as claimed: the bg_path and bgm_path the current scene records change
   only when the resource was loaded: a background or music request whose file
   is missing or does not decode leaves the recorded path as it was before the
   request *)
C32_PathRecordedOnlyWhenLoaded ==
    [][FailedBackgroundKeepsPath /\ FailedBgmKeepsPath]_vars


-----------------------------------------------------------------------------
(* Properties of the slot index of a command *)

SlotCommands == {"RequestLoad", "LoadSuccess", "SetAnimation"}

(* the drain of a RequestLoad, LoadSuccess or SetAnimation whose slot index is
   outside 0..4 leaves the five slots and their textures as they were and does
   not panic *)
OutOfRangeIgnored ==
    \A type \in SlotCommands :
        Draining(type) /\ Head(chan).slot_idx \notin Slots =>
            /\ characters' = characters
            /\ textures' = textures
            /\ ~crashed'
            /\ uipc' = "drain"

(* every RemoveCharacter in the channel carries an index in 0..4 *)
RemovalsInRange ==
    \A k \in 1 .. Len(chan) : chan[k].type = "RemoveCharacter" => chan[k].slot_idx \in Slots

(* the console line LOAD 7 a sends the RequestLoad of slot 7 and the UI thread
   runs on *)
LoadLineOutOfRange ==
    Submitting(Line_load_7_a) =>
        /\ ~crashed'
        /\ chan' = Enqueue(chan, <<RequestLoad(7, PathA)>>, nsent)
        /\ characters' = characters

(* C33, as claimed: a RequestLoad, LoadSuccess or SetAnimation whose slot
   index is outside 0..4, such as the one of the console line LOAD 7 a, leaves
   all five slots unchanged and does not crash the frame loop, and every
   RemoveCharacter that is sent carries an index in 0..4 *)
C33_OutOfRangeSlotHarmless ==
    /\ []RemovalsInRange
    /\ [][OutOfRangeIgnored /\ LoadLineOutOfRange]_vars

====
